---- MODULE Spec2Model ----
(***************************************************************************)
(* Model of the dictionary importer's build engine                         *)
(* (tools/dict_importer/dict_importer/build_dicts.py, schema.py,           *)
(* normalize.py).                                                          *)
(*                                                                         *)
(* Text is modelled character by character: a Python str is a sequence of  *)
(* one-character strings; a non-ASCII character is written by its code     *)
(* point ("U+0103" is a-breve, "U+FB01" the fi ligature, "U+0308" the      *)
(* combining diaeresis, "U+00EB" e-diaeresis).  Optional[str] None is the  *)
(* one-element sequence None, which is no text.  Optional[int] None is     *)
(* NoneInt.  A float confidence is modelled in tenths (0.8 is 8).          *)
(***************************************************************************)
EXTENDS Integers, Sequences, FiniteSets, TLC

\* ------------------------------------------------------------------ bounds
MaxProcessed == 3
MaxBuilds == 2
MaxPageLen == 2
MaxPages == 1
MaxLines == 3
MaxPdfPages == 2
MaxImported == 2
MaxFilters == 2

\* ------------------------------------------------------- Python primitives
None == <<"None">>
NoneInt == -1

UpperLetters == <<"A","B","C","D","E","F","G","H","I","J","K","L","M",
                  "N","O","P","Q","R","S","T","U","V","W","X","Y","Z">>
LowerLetters == <<"a","b","c","d","e","f","g","h","i","j","k","l","m",
                  "n","o","p","q","r","s","t","u","v","w","x","y","z">>
Digits == {"0","1","2","3","4","5","6","7","8","9"}
NonAsciiLetters == {"U+0103", "U+FB01", "U+00EB"}
Whitespace == {" ", "\t", "\n"}

Range(s) == {s[i] : i \in 1..Len(s)}

\* str.lower() on one character
LowerChar(c) ==
  IF \E i \in 1..26 : UpperLetters[i] = c
  THEN LowerLetters[CHOOSE i \in 1..26 : UpperLetters[i] = c]
  ELSE c

\* str.lower()
Lower(s) == [i \in 1..Len(s) |-> LowerChar(s[i])]

\* `sub in s` for two strings
Contains(sub, s) ==
  \E i \in 0..(Len(s) - Len(sub)) : SubSeq(s, i + 1, i + Len(sub)) = sub

\* str.strip(): drop leading and trailing whitespace
RECURSIVE LStrip(_)
LStrip(s) == IF s # <<>> /\ s[1] \in Whitespace THEN LStrip(Tail(s)) ELSE s
RECURSIVE RStrip(_)
RStrip(s) ==
  IF s # <<>> /\ s[Len(s)] \in Whitespace
  THEN RStrip(SubSeq(s, 1, Len(s) - 1)) ELSE s
Strip(s) == RStrip(LStrip(s))

\* truthiness of an Optional[str]: None and "" are falsy
Truthy(x) == x # None /\ x # <<>>
\* `a or b` on Optional[str]
OrStr(a, b) == IF Truthy(a) THEN a ELSE b
\* `p or 0` / `p or q` on Optional[int]: None and 0 are falsy
OrInt(p, q) == IF p # NoneInt /\ p # 0 THEN p ELSE q

\* ------------------------------------------------------------ normalize.py
\* regex class [\w']: word characters and the apostrophe
IsWordChar(c) ==
  \/ c \in Range(UpperLetters) \/ c \in Range(LowerLetters)
  \/ c \in Digits \/ c = "_" \/ c \in NonAsciiLetters
KeepAtEdge(c) == IsWordChar(c) \/ c = "'"

\* re.sub(r'^[^\w\']+', '', word)
RECURSIVE StripLeadingPunct(_)
StripLeadingPunct(w) ==
  IF w # <<>> /\ ~KeepAtEdge(w[1]) THEN StripLeadingPunct(Tail(w)) ELSE w
\* re.sub(r'[^\w\']+$', '', word)
RECURSIVE StripTrailingPunct(_)
StripTrailingPunct(w) ==
  IF w # <<>> /\ ~KeepAtEdge(w[Len(w)])
  THEN StripTrailingPunct(SubSeq(w, 1, Len(w) - 1)) ELSE w

\* re.sub(r' +', ' ', text), re.sub(r'\n+', '\n', text): collapse runs of c
RECURSIVE CollapseRuns(_, _)
CollapseRuns(s, c) ==
  IF Len(s) < 2 THEN s
  ELSE IF s[1] = c /\ s[2] = c THEN CollapseRuns(Tail(s), c)
  ELSE <<s[1]>> \o CollapseRuns(Tail(s), c)

normalize_whitespace(text) == Strip(CollapseRuns(CollapseRuns(text, " "), "\n"))

\* unicodedata.normalize('NFC', text): compose base + combining mark
RECURSIVE normalize_diacritics(_)
normalize_diacritics(text) ==
  IF text = <<>> THEN <<>>
  ELSE IF Len(text) >= 2 /\ text[1] = "e" /\ text[2] = "U+0308"
  THEN <<"U+00EB">> \o normalize_diacritics(SubSeq(text, 3, Len(text)))
  ELSE <<text[1]>> \o normalize_diacritics(Tail(text))

\* LIGATURES replacement (the fi ligature stands for the table)
RECURSIVE normalize_ligatures(_)
normalize_ligatures(text) ==
  IF text = <<>> THEN <<>>
  ELSE IF text[1] = "U+FB01"
  THEN <<"f", "i">> \o normalize_ligatures(Tail(text))
  ELSE <<text[1]>> \o normalize_ligatures(Tail(text))

clean_headword(word) ==
  normalize_ligatures(normalize_diacritics(normalize_whitespace(
    StripTrailingPunct(StripLeadingPunct(word)))))

\* str methods used on lines and tokens
StartsWith(s, p) == Len(s) >= Len(p) /\ SubSeq(s, 1, Len(p)) = p
EndsWith(s, p) == Len(s) >= Len(p) /\ SubSeq(s, Len(s) - Len(p) + 1, Len(s)) = p
IsUpperChar(c) == c \in Range(UpperLetters)
IsLowerChar(c) == c \in Range(LowerLetters) \/ c \in NonAsciiLetters
IsAlphaChar(c) == IsUpperChar(c) \/ IsLowerChar(c)

\* the index of the first element of s, from index i on, that is in the set
\* cs; Len(s) + 1 when there is none
RECURSIVE FindFrom(_, _, _)
FindFrom(s, cs, i) ==
  IF i > Len(s) THEN Len(s) + 1
  ELSE IF s[i] \in cs THEN i
  ELSE FindFrom(s, cs, i + 1)

\* str.split(c) on a one-character separator
RECURSIVE SplitOn(_, _)
SplitOn(s, c) ==
  LET i == FindFrom(s, {c}, 1) IN
  IF i > Len(s) THEN <<s>>
  ELSE <<SubSeq(s, 1, i - 1)>> \o SplitOn(SubSeq(s, i + 1, Len(s)), c)

\* str.split(): the whitespace-separated words
RECURSIVE SplitWords(_)
SplitWords(s) ==
  LET t == LStrip(s)
      n == FindFrom(t, Whitespace, 1)
  IN IF t = <<>> THEN <<>>
     ELSE <<SubSeq(t, 1, n - 1)>> \o SplitWords(SubSeq(t, n, Len(t)))

\* sep.join(parts)
RECURSIVE Join(_, _)
Join(parts, sep) ==
  IF parts = <<>> THEN <<>>
  ELSE IF Len(parts) = 1 THEN parts[1]
  ELSE parts[1] \o sep \o Join(Tail(parts), sep)

\* [f(x) for x in xs if keep]: the stripped lines that are not blank
RECURSIVE StripNonEmpty(_)
StripNonEmpty(ls) ==
  IF ls = <<>> THEN <<>>
  ELSE IF Strip(Head(ls)) # <<>>
  THEN <<Strip(Head(ls))>> \o StripNonEmpty(Tail(ls))
  ELSE StripNonEmpty(Tail(ls))

KNOWN_HYPHENATED ==
  { <<"s","e","l","f","-">>,
    <<"n","o","n","-">>,
    <<"p","r","e","-">>,
    <<"p","o","s","t","-">>,
    <<"a","n","t","i","-">>,
    <<"p","r","o","-">>,
    <<"c","o","-">>,
    <<"e","x","-">>,
    <<"m","u","l","t","i","-">>,
    <<"s","u","b","-">>,
    <<"s","u","p","e","r","-">>,
    <<"u","l","t","r","a","-">>,
    <<"i","n","t","e","r","-">>,
    <<"i","n","t","r","a","-">>,
    <<"s","e","m","i","-">>,
    <<"p","s","e","u","d","o","-">>,
    <<"q","u","a","s","i","-">>,
    <<"n","e","o","-">>,
    <<"p","r","o","t","o","-">>,
    <<"m","e","t","a","-">>,
    <<"p","a","r","a","-">>,
    <<"c","o","u","n","t","e","r","-">>,
    <<"o","v","e","r","-">>,
    <<"o","u","t","-">>,
    <<"u","p","-">>,
    <<"d","o","w","n","-">>,
    <<"o","f","f","-">>,
    <<"o","n","-">>,
    <<"i","n","-">> }

is_hyphenated_word(word) ==
  LET word_lower == Lower(word)
      parts == SplitOn(word, "-")
  IN \/ \E prefix \in KNOWN_HYPHENATED : StartsWith(word_lower, prefix)
     \/ /\ Len(parts) = 2
        /\ Len(parts[1]) > 1 /\ Len(parts[2]) > 1
        /\ IsUpperChar(parts[1][1]) /\ IsUpperChar(parts[2][1])

\* the while loop of restore_hyphenated_words from index i on (1-based)
RECURSIVE RestoreFrom(_, _)
RestoreFrom(non_empty_lines, i) ==
  IF i > Len(non_empty_lines) THEN <<>>
  ELSE
    LET line == non_empty_lines[i] IN
    IF /\ EndsWith(line, <<"-">>)
       /\ i + 1 <= Len(non_empty_lines)
       /\ IsLowerChar(non_empty_lines[i + 1][1])
    THEN
      LET word_part == Strip(SubSeq(line, 1, Len(line) - 1))
          next_line == non_empty_lines[i + 1]
          next_words == SplitWords(next_line)
      IN IF next_words # <<>>
         THEN IF ~is_hyphenated_word(word_part \o <<"-">> \o next_words[1])
              THEN <<word_part \o next_line>> \o
                   RestoreFrom(non_empty_lines, i + 2)
              ELSE <<line>> \o RestoreFrom(non_empty_lines, i + 1)
         ELSE <<line>> \o RestoreFrom(non_empty_lines, i + 1)
    ELSE <<line>> \o RestoreFrom(non_empty_lines, i + 1)

restore_hyphenated_words(lines) == RestoreFrom(StripNonEmpty(lines), 1)

\* re.sub(r'[.,;:!?]+$', '', text)
RECURSIVE StripTrailingMarks(_)
StripTrailingMarks(text) ==
  IF text # <<>> /\ text[Len(text)] \in {".", ",", ";", ":", "!", "?"}
  THEN StripTrailingMarks(SubSeq(text, 1, Len(text) - 1)) ELSE text

clean_translation(text) ==
  StripTrailingMarks(normalize_ligatures(normalize_diacritics(
    normalize_whitespace(text))))

\* --------------------------------------------------------------- schema.py
\* the fields class Entry declares, with their defaults
EntryDefaults ==
  [english |-> <<>>, ancient |-> None, modern |-> None, pos |-> None,
   notes |-> None, sacred |-> FALSE, source_page |-> NoneInt,
   confidence |-> 10]
EntryFields == DOMAIN EntryDefaults

\* Entry(**kw): a pydantic model keeps the declared fields only (extra
\* keyword arguments are ignored) and fills in the defaults
Entry(kw) ==
  [f \in EntryFields |-> IF f \in DOMAIN kw THEN kw[f] ELSE EntryDefaults[f]]

has_ancient(e) == e.ancient # None /\ Strip(e.ancient) # <<>>
has_modern(e) == e.modern # None /\ Strip(e.modern) # <<>>
is_complete(e) == has_ancient(e) \/ has_modern(e)

\* ----------------------------------------------------------- build_dicts.py
\* dict helpers: a dict is a function on the set of its keys
EmptyDict == <<>>
DictSet(d, k, v) == [x \in (DOMAIN d) \cup {k} |-> IF x = k THEN v ELSE d[x]]
DictPop(d, k) == [x \in (DOMAIN d) \ {k} |-> d[x]]

\* self.conflicts is iterated, so it keeps insertion order: a sequence of
\* [key, entries] items with pairwise different keys
HasKey(conflicts, k) == \E i \in 1..Len(conflicts) : conflicts[i].key = k
KeyIndex(conflicts, k) == CHOOSE i \in 1..Len(conflicts) : conflicts[i].key = k
GroupOf(conflicts, k) == conflicts[KeyIndex(conflicts, k)].entries
SetGroup(conflicts, k, g) ==
  IF HasKey(conflicts, k)
  THEN [conflicts EXCEPT ![KeyIndex(conflicts, k)].entries = g]
  ELSE Append(conflicts, [key |-> k, entries |-> g])

Str_In_exclude_list ==
  <<"I","n"," ","e","x","c","l","u","d","e"," ","l","i","s","t">>
Str_Divine_religious_term ==
  <<"D","i","v","i","n","e","/","r","e","l","i","g","i","o","u","s"," ",
    "t","e","r","m">>
Str_Comoara_term == <<"C","o","m","o","a","r","U+0103"," ","t","e","r","m">>
Str_empty == <<"e","m","p","t","y">>
Str_Too_short == <<"T","o","o"," ","s","h","o","r","t">>
Str_No_translations ==
  <<"N","o"," ","t","r","a","n","s","l","a","t","i","o","n","s">>
Str_EXCLUDED == <<"E","X","C","L","U","D","E","D",":"," ">>
Str_primary == <<"p","r","i","m","a","r","y">>
Str_standard == <<"s","t","a","n","d","a","r","d">>

divine_terms ==
  { <<"g","o","d">>, <<"g","o","d","d","e","s","s">>, <<"d","e","i","t","y">>,
    <<"d","i","v","i","n","e">>, <<"s","a","c","r","e","d">>,
    <<"h","o","l","y">> }
comoara_terms ==
  { <<"c","o","m","o","a","r","U+0103">>,
    <<"t","r","e","a","s","u","r","e">> }

\* the length test moved in front of the empty test
should_exclude_short_first(exclude_terms, entry) ==
  LET english_lower == Lower(entry.english) IN
  IF english_lower \in exclude_terms
  THEN [exclude |-> TRUE, reason |-> Str_In_exclude_list]
  ELSE IF \E term \in divine_terms : Contains(term, english_lower)
  THEN [exclude |-> TRUE, reason |-> Str_Divine_religious_term]
  ELSE IF \E term \in comoara_terms : Contains(term, english_lower)
  THEN [exclude |-> TRUE, reason |-> Str_Comoara_term]
  ELSE IF Len(entry.english) < 2
  THEN [exclude |-> TRUE, reason |-> Str_Too_short]
  ELSE IF entry.english = <<>> \/ Strip(entry.english) = <<>>
  THEN [exclude |-> TRUE, reason |-> Str_empty]
  ELSE IF ~is_complete(entry)
  THEN [exclude |-> TRUE, reason |-> Str_No_translations]
  ELSE [exclude |-> FALSE, reason |-> <<>>]

\* should_exclude(entry) -> (bool, reason)
should_exclude(exclude_terms, entry) ==
  LET english_lower == Lower(entry.english) IN
  IF english_lower \in exclude_terms
  THEN [exclude |-> TRUE, reason |-> Str_In_exclude_list]
  ELSE IF \E term \in divine_terms : Contains(term, english_lower)
  THEN [exclude |-> TRUE, reason |-> Str_Divine_religious_term]
  ELSE IF \E term \in comoara_terms : Contains(term, english_lower)
  THEN [exclude |-> TRUE, reason |-> Str_Comoara_term]
  ELSE IF entry.english = <<>> \/ Strip(entry.english) = <<>>
  THEN [exclude |-> TRUE, reason |-> Str_empty]
  ELSE IF Len(entry.english) < 2
  THEN [exclude |-> TRUE, reason |-> Str_Too_short]
  ELSE IF ~is_complete(entry)
  THEN [exclude |-> TRUE, reason |-> Str_No_translations]
  ELSE [exclude |-> FALSE, reason |-> <<>>]

\* max(..., key=...): the index of the first maximal key in a sequence of keys
FirstMax(ks) ==
  CHOOSE i \in 1..Len(ks) :
    /\ \A j \in 1..Len(ks) : ks[j] <= ks[i]
    /\ \A j \in 1..(i - 1) : ks[j] < ks[i]

\* the 'standard' test (lines 79-80) left out
HasMarker_primary_only(e) ==
  e.notes # None /\ e.notes # <<>> /\ Contains(Str_primary, Lower(e.notes))

HasMarker(e) ==
  e.notes # None /\ e.notes # <<>> /\
  (Contains(Str_primary, Lower(e.notes)) \/
   Contains(Str_standard, Lower(e.notes)))

ConfidenceOf(e) == e.confidence
PageOf(e) == OrInt(e.source_page, 0)
TableOrderOf(e) == OrInt(e.table_order, 0)

Return(e) == [exc |-> "none", ret |-> e]
Raise(x) == [exc |-> x, ret |-> EntryDefaults]

\* lines 76-80: the first entry whose notes carry a marker
FirstMarked(entries) ==
  entries[CHOOSE i \in 1..Len(entries) :
            /\ HasMarker(entries[i])
            /\ \A j \in 1..(i - 1) : ~HasMarker(entries[j])]

\* min in place of max
BestByConfidence_min(entries) ==
  entries[CHOOSE i \in 1..Len(entries) :
            /\ \A j \in 1..Len(entries) :
                 entries[i].confidence <= entries[j].confidence
            /\ \A j \in 1..(i - 1) :
                 entries[i].confidence < entries[j].confidence]

\* line 83: max(entries, key=lambda e: e.confidence)
BestByConfidence(entries) ==
  entries[FirstMax([i \in 1..Len(entries) |-> ConfidenceOf(entries[i])])]

\* line 91: max(entries, key=lambda e: e.source_page or 0)
BestByPage(entries) ==
  entries[FirstMax([i \in 1..Len(entries) |-> PageOf(entries[i])])]

\* line 95: max(entries, key=lambda e: e.table_order or 0)
BestByTableOrder(entries) ==
  entries[FirstMax([i \in 1..Len(entries) |-> TableOrderOf(entries[i])])]

\* resolve_conflict(english_key, entries) -> Entry, or an exception.
\* Line 95 reads e.table_order; class Entry declares no such field, and
\* reading an undeclared attribute of a pydantic model is an AttributeError.
resolve_conflict(english_key, entries) ==
  IF Len(entries) = 1 THEN Return(entries[1])
  ELSE IF \E i \in 1..Len(entries) : HasMarker(entries[i])
  THEN Return(FirstMarked(entries))
  ELSE
    LET best_entry == BestByConfidence(entries) IN
    IF best_entry.confidence = entries[1].confidence
    THEN
      IF \A i \in 1..Len(entries) : entries[i].confidence = best_entry.confidence
      THEN
        LET best_page == BestByPage(entries) IN
        IF \A i \in 1..Len(entries) :
             entries[i].source_page = best_page.source_page
        THEN
          IF "table_order" \in EntryFields
          THEN Return(BestByTableOrder(entries))
          ELSE Raise("AttributeError")
        ELSE Return(best_page)
      ELSE
        IF \E i \in 1..Len(entries) : is_complete(entries[i])
        THEN Return(entries[CHOOSE i \in 1..Len(entries) :
                       /\ is_complete(entries[i])
                       /\ \A j \in 1..(i - 1) : ~is_complete(entries[j])])
        ELSE Return(best_entry)
    ELSE Return(best_entry)

_are_complementary(entry1, entry2) ==
  IF Lower(entry1.english) # Lower(entry2.english) THEN FALSE
  ELSE
    LET entry1_has_ancient == has_ancient(entry1) /\ ~has_modern(entry1)
        entry1_has_modern == has_modern(entry1) /\ ~has_ancient(entry1)
        entry2_has_ancient == has_ancient(entry2) /\ ~has_modern(entry2)
        entry2_has_modern == has_modern(entry2) /\ ~has_ancient(entry2)
    IN (entry1_has_ancient /\ entry2_has_modern) \/
       (entry1_has_modern /\ entry2_has_ancient)

_merge_entries(entry1, entry2) ==
  Entry([english |-> entry1.english,
         ancient |-> OrStr(entry1.ancient, entry2.ancient),
         modern |-> OrStr(entry1.modern, entry2.modern),
         pos |-> OrStr(entry1.pos, entry2.pos),
         notes |-> OrStr(entry1.notes, entry2.notes),
         sacred |-> entry1.sacred \/ entry2.sacred,
         source_page |-> OrInt(entry1.source_page, entry2.source_page),
         confidence |-> IF entry1.confidence >= entry2.confidence
                        THEN entry1.confidence ELSE entry2.confidence])

\* is_duplicate (lines 152-155)
is_duplicate(existing_entries, entry) ==
  \E i \in 1..Len(existing_entries) :
    /\ existing_entries[i].ancient = entry.ancient
    /\ existing_entries[i].modern = entry.modern
    /\ existing_entries[i].pos = entry.pos

Bump(stats, name) == [stats EXCEPT ![name] = @ + 1]

\* lines 169-175 / 189-195: enter the translations of e under key
AddToDictionaries(s, key, e) ==
  LET s1 == IF has_ancient(e)
            THEN [s EXCEPT !.ancient_entries = DictSet(@, key, e.ancient),
                           !.stats = Bump(@, "ancient_entries")]
            ELSE s
  IN IF has_modern(e)
     THEN [s1 EXCEPT !.modern_entries = DictSet(@, key, e.modern),
                     !.stats = Bump(@, "modern_entries")]
     ELSE s1

\* the conflict branch without lines 183-184 (the key stays in the mappings)
process_entry_keep_mappings(s, entry) ==
  LET s0 == [s EXCEPT !.stats = Bump(@, "total_entries")]
      x == should_exclude(s.exclude_terms, entry)
      english_key == Lower(clean_headword(entry.english))
  IN
  IF x.exclude
  THEN [s0 EXCEPT
          !.excluded_entries =
             Append(@, [entry EXCEPT !.notes = Str_EXCLUDED \o x.reason]),
          !.stats = Bump(@, "excluded_entries")]
  ELSE IF HasKey(s0.conflicts, english_key)
  THEN
    LET existing_entries == GroupOf(s0.conflicts, english_key) IN
    IF is_duplicate(existing_entries, entry) THEN s0
    ELSE
      LET existing_entry == existing_entries[1] IN
      IF _are_complementary(existing_entry, entry)
      THEN
        LET merged_entry == _merge_entries(existing_entry, entry) IN
        AddToDictionaries(
          [s0 EXCEPT !.conflicts = SetGroup(@, english_key, <<merged_entry>>)],
          english_key, merged_entry)
      ELSE
        LET g == Append(existing_entries, entry) IN
        [s0 EXCEPT
           !.conflicts = SetGroup(@, english_key, g),
           !.stats = Bump(@, "conflicts"),
           !.variants = DictSet(@, english_key, g)]
  ELSE
    AddToDictionaries(
      [s0 EXCEPT !.conflicts = SetGroup(@, english_key, <<entry>>)],
      english_key, entry)

\* process_entry(entry) on the builder state s
process_entry(s, entry) ==
  LET s0 == [s EXCEPT !.stats = Bump(@, "total_entries")]
      x == should_exclude(s.exclude_terms, entry)
      english_key == Lower(clean_headword(entry.english))
  IN
  IF x.exclude
  THEN [s0 EXCEPT
          !.excluded_entries =
             Append(@, [entry EXCEPT !.notes = Str_EXCLUDED \o x.reason]),
          !.stats = Bump(@, "excluded_entries")]
  ELSE IF HasKey(s0.conflicts, english_key)
  THEN
    LET existing_entries == GroupOf(s0.conflicts, english_key) IN
    IF is_duplicate(existing_entries, entry) THEN s0
    ELSE
      LET existing_entry == existing_entries[1] IN
      IF _are_complementary(existing_entry, entry)
      THEN
        LET merged_entry == _merge_entries(existing_entry, entry) IN
        AddToDictionaries(
          [s0 EXCEPT !.conflicts = SetGroup(@, english_key, <<merged_entry>>)],
          english_key, merged_entry)
      ELSE
        LET g == Append(existing_entries, entry) IN
        [s0 EXCEPT
           !.conflicts = SetGroup(@, english_key, g),
           !.stats = Bump(@, "conflicts"),
           !.variants = DictSet(@, english_key, g),
           !.ancient_entries = DictPop(@, english_key),
           !.modern_entries = DictPop(@, english_key)]
  ELSE
    AddToDictionaries(
      [s0 EXCEPT !.conflicts = SetGroup(@, english_key, <<entry>>)],
      english_key, entry)

\* process_page(page): page.entries in order
RECURSIVE ProcessEntries(_, _)
ProcessEntries(s, entries) ==
  IF entries = <<>> THEN s
  ELSE ProcessEntries(process_entry(s, Head(entries)), Tail(entries))

process_page(s, page) ==
  ProcessEntries([s EXCEPT !.stats = Bump(@, "pages_processed")], page.entries)

\* lines 228-231: every entry of the group that differs from the winner
\* (pydantic compares models field by field) goes to variant_entries
RECURSIVE AddVariants(_, _, _)
AddVariants(s, entries, primary_entry) ==
  IF entries = <<>> THEN s
  ELSE AddVariants(
         IF Head(entries) # primary_entry
         THEN [s EXCEPT !.variant_entries = Append(@, Head(entries)),
                        !.stats = Bump(@, "variants")]
         ELSE s,
         Tail(entries), primary_entry)

\* the loop without the call of resolve_conflict: a group yields its first
\* entry
RECURSIVE ResolveLoop_first_entry(_, _)
ResolveLoop_first_entry(s, i) ==
  IF i > Len(s.conflicts) THEN [state |-> s, exc |-> "none"]
  ELSE
    LET english_key == s.conflicts[i].key
        entries == s.conflicts[i].entries
    IN
    IF Len(entries) > 1
    THEN ResolveLoop_first_entry(
           AddVariants(AddToDictionaries(s, english_key, entries[1]),
                       entries, entries[1]),
           i + 1)
    ELSE ResolveLoop_first_entry(
           AddToDictionaries(s, english_key, entries[1]), i + 1)

\* lines 213-242: the loop over self.conflicts.items() from item i on; an
\* exception of resolve_conflict leaves the loop with the state as it is
RECURSIVE ResolveLoop(_, _)
ResolveLoop(s, i) ==
  IF i > Len(s.conflicts) THEN [state |-> s, exc |-> "none"]
  ELSE
    LET english_key == s.conflicts[i].key
        entries == s.conflicts[i].entries
    IN
    IF Len(entries) > 1
    THEN
      LET r == resolve_conflict(english_key, entries) IN
      IF r.exc # "none" THEN [state |-> s, exc |-> r.exc]
      ELSE ResolveLoop(
             AddVariants(AddToDictionaries(s, english_key, r.ret),
                         entries, r.ret),
             i + 1)
    ELSE ResolveLoop(AddToDictionaries(s, english_key, entries[1]), i + 1)

\* build_stats (lines 249-255)
BuildStats(stats) ==
  [total_entries |-> stats.total_entries,
   ancient_entries |-> stats.ancient_entries,
   modern_entries |-> stats.modern_entries,
   excluded_entries |-> stats.excluded_entries,
   conflicts |-> stats.conflicts,
   variants |-> stats.variants,
   pages_processed |-> stats.pages_processed,
   total_ancient |-> stats.ancient_entries,
   total_modern |-> stats.modern_entries,
   conflicts_resolved |-> stats.conflicts,
   entries_excluded |-> stats.excluded_entries]

\* build_dictionaries without lines 207-208 (the two counters are not reset)
build_dictionaries_no_counter_reset(s) ==
  LET s0 == [s EXCEPT !.ancient_entries = EmptyDict,
                      !.modern_entries = EmptyDict]
      r == ResolveLoop(s0, 1)
  IN
  IF r.exc # "none" THEN r
  ELSE [state |-> [r.state EXCEPT !.build_linked = TRUE,
                                  !.build_stats = BuildStats(r.state.stats)],
        exc |-> "none"]

\* build_dictionaries(): the builder state after the call and the exception
\* it ended with ("none": it returned self.build).  From the first return
\* on, self.build's two mappings and two lists ARE the builder's own
\* containers (build_linked), build_stats is a copy.
build_dictionaries(s) ==
  LET s0 == [s EXCEPT !.stats = [@ EXCEPT !.ancient_entries = 0,
                                          !.modern_entries = 0],
                      !.ancient_entries = EmptyDict,
                      !.modern_entries = EmptyDict]
      r == ResolveLoop(s0, 1)
  IN
  IF r.exc # "none" THEN r
  ELSE [state |-> [r.state EXCEPT !.build_linked = TRUE,
                                  !.build_stats = BuildStats(r.state.stats)],
        exc |-> "none"]

\* get_conflicts()
get_conflicts(s) ==
  {s.conflicts[i].key : i \in {j \in 1..Len(s.conflicts) :
                                  Len(s.conflicts[j].entries) > 1}}

\* resolve_conflicts(): the loop over self.conflicts.items() from item i
\* on; a group of several entries is replaced by [primary_entry]; an
\* exception of resolve_conflict leaves the loop with the state as it is
RECURSIVE ResolveAllFrom(_, _, _)
ResolveAllFrom(s, i, resolved_entries) ==
  IF i > Len(s.conflicts)
  THEN [state |-> s, exc |-> "none", ret |-> resolved_entries]
  ELSE IF Len(s.conflicts[i].entries) > 1
  THEN
    LET r == resolve_conflict(s.conflicts[i].key, s.conflicts[i].entries) IN
    IF r.exc # "none"
    THEN [state |-> s, exc |-> r.exc, ret |-> <<>>]
    ELSE ResolveAllFrom([s EXCEPT !.conflicts[i].entries = <<r.ret>>], i + 1,
                        Append(resolved_entries, r.ret))
  ELSE ResolveAllFrom(s, i + 1, resolved_entries)

resolve_conflicts(s) == ResolveAllFrom(s, 1, <<>>)

\* str(x) of a confidence or threshold given in tenths: 8 is '0.8'
DigitText == <<"0","1","2","3","4","5","6","7","8","9">>
FloatText(n) == <<DigitText[(n \div 10) + 1], ".", DigitText[(n % 10) + 1]>>

Str_EXCLUDED_Low_confidence == <<"E","X","C","L","U","D","E","D",":"," ","L","o","w"," ","c","o","n","f","i","d","e","n","c","e"," ","(">>
Str_less_than == <<" ","<"," ">>
Str_EXCLUDED_Incomplete == <<"E","X","C","L","U","D","E","D",":"," ","I","n","c","o","m","p","l","e","t","e"," ","e","n","t","r","y">>
Str_EXCLUDED_Placeholder == <<"E","X","C","L","U","D","E","D",":"," ","P","l","a","c","e","h","o","l","d","e","r"," ","e","n","t","r","y">>

\* filter_placeholder_entries, line 393
placeholders ==
  { <<"U+2014">>, <<"-">>, <<".",".",".">>, <<"T","B","D">>, <<"T","O","D","O">>, <<"N","/","A">> }

\* the test of each filter_* method (lines 363, 380, 398-399) on an entry
\* of a group; kind names the method
Passes(kind, threshold, entry) ==
  IF kind = "low_confidence" THEN entry.confidence >= threshold
  ELSE IF kind = "incomplete_entries" THEN is_complete(entry)
  ELSE entry.ancient \notin placeholders /\ entry.modern \notin placeholders

\* the notes each filter_* method writes into the entry it moves to the
\* excluded entries (lines 367, 384, 403)
FilterNotes(kind, threshold, entry) ==
  IF kind = "low_confidence"
  THEN Str_EXCLUDED_Low_confidence \o FloatText(entry.confidence)
         \o Str_less_than \o FloatText(threshold) \o <<")">>
  ELSE IF kind = "incomplete_entries" THEN Str_EXCLUDED_Incomplete
  ELSE Str_EXCLUDED_Placeholder

\* entry.notes = notes acts on the Entry object, so every list that holds
\* the object shows it; entries are values here and the object is found by
\* equality
Renoted(entries, entry, notes) ==
  [i \in 1..Len(entries) |->
     IF entries[i] = entry THEN [entry EXCEPT !.notes = notes] ELSE entries[i]]

\* the else branch of the filter_* loops: the entry gets its notes, is
\* appended to the excluded entries and counted
MoveToExcluded(s, entry, notes) ==
  [s EXCEPT
     !.excluded_entries =
        Append(Renoted(@, entry, notes), [entry EXCEPT !.notes = notes]),
     !.variant_entries = Renoted(@, entry, notes),
     !.variants = [k \in DOMAIN @ |-> Renoted(@[k], entry, notes)],
     !.stats = Bump(@, "excluded_entries")]

\* the inner loop of a filter_* method over the entries of one group
RECURSIVE FilterGroup(_, _, _, _, _)
FilterGroup(kind, threshold, s, entries, filtered_entries) ==
  IF entries = <<>>
  THEN [state |-> s, filtered_entries |-> filtered_entries]
  ELSE IF Passes(kind, threshold, Head(entries))
  THEN FilterGroup(kind, threshold, s, Tail(entries),
                   Append(filtered_entries, Head(entries)))
  ELSE FilterGroup(kind, threshold,
                   MoveToExcluded(s, Head(entries),
                                  FilterNotes(kind, threshold, Head(entries))),
                   Tail(entries), filtered_entries)

\* a group that keeps entries stays in filtered_conflicts under its key
KeepGroup(filtered_conflicts, key, r) ==
  [state |-> r.state,
   filtered_conflicts |->
     IF r.filtered_entries # <<>>
     THEN Append(filtered_conflicts,
                 [key |-> key, entries |-> r.filtered_entries])
     ELSE filtered_conflicts]

\* the outer loop of a filter_* method over self.conflicts.items(), from
\* item i on
RECURSIVE FilterItems(_, _, _, _, _)
FilterItems(kind, threshold, s, i, filtered_conflicts) ==
  IF i > Len(s.conflicts)
  THEN [s EXCEPT !.conflicts = filtered_conflicts]
  ELSE
    LET r == KeepGroup(filtered_conflicts, s.conflicts[i].key,
               FilterGroup(kind, threshold, s, s.conflicts[i].entries, <<>>))
    IN FilterItems(kind, threshold, r.state, i + 1, r.filtered_conflicts)

\* filter_low_confidence without the else branch: entries below the
\* threshold leave their group and go nowhere
filter_low_confidence_drop(s, threshold) ==
  LET Test(entry) == Passes("low_confidence", threshold, entry)
      KeptItem(item) == [item EXCEPT !.entries = SelectSeq(@, Test)]
      NonEmpty(item) == item.entries # <<>>
  IN [s EXCEPT !.conflicts =
        SelectSeq([i \in 1..Len(s.conflicts) |-> KeptItem(s.conflicts[i])],
                  NonEmpty)]

filter_low_confidence(s, threshold) ==
  FilterItems("low_confidence", threshold, s, 1, <<>>)

filter_incomplete_entries(s) ==
  FilterItems("incomplete_entries", 0, s, 1, <<>>)

filter_placeholder_entries(s) ==
  FilterItems("placeholder_entries", 0, s, 1, <<>>)

\* --------------------------------------------------------- parse_tables.py
\* the index of the first element of s, from index i on, that is not in cs
RECURSIVE SkipWhile(_, _, _)
SkipWhile(s, cs, i) ==
  IF i > Len(s) THEN Len(s) + 1
  ELSE IF s[i] \notin cs THEN i
  ELSE SkipWhile(s, cs, i + 1)

\* the slice s[a:b] of Python (offsets from 0, clamped to the string)
Slice(s, a, b) ==
  LET lo == IF a < 0 THEN 0 ELSE a
      hi == IF b > Len(s) THEN Len(s) ELSE b
  IN IF lo >= hi THEN <<>> ELSE SubSeq(s, lo + 1, hi)

\* w stands in s at index i
HasAt(s, i, w) ==
  i >= 1 /\ i + Len(w) - 1 <= Len(s) /\ SubSeq(s, i, i + Len(w) - 1) = w

\* the regex piece \s*\|?\s* read from index i: the index after it
GapEnd(s, i) ==
  LET j == SkipWhile(s, Whitespace, i) IN
  IF j <= Len(s) /\ s[j] = "|" THEN SkipWhile(s, Whitespace, j + 1) ELSE j

\* re.search(w1 \s*\|?\s* w2, s) and re.search(w1 \s*\|?\s* w2 \s*\|?\s* w3, s)
SearchTwo(s, w1, w2) ==
  \E i \in 1..Len(s) : HasAt(s, i, w1) /\ HasAt(s, GapEnd(s, i + Len(w1)), w2)
SearchThree(s, w1, w2, w3) ==
  \E i \in 1..Len(s) :
    /\ HasAt(s, i, w1)
    /\ HasAt(s, GapEnd(s, i + Len(w1)), w2)
    /\ HasAt(s, GapEnd(s, GapEnd(s, i + Len(w1)) + Len(w2)), w3)
\* re.search(w1 \s*\|\s* w2, s): the pipe is required
SearchPiped(s, w1, w2) ==
  \E i \in 1..Len(s) :
    /\ HasAt(s, i, w1)
    /\ LET j == SkipWhile(s, Whitespace, i + Len(w1)) IN
       /\ j <= Len(s) /\ s[j] = "|"
       /\ HasAt(s, SkipWhile(s, Whitespace, j + 1), w2)

Str_english == <<"e","n","g","l","i","s","h">>
Str_ancient == <<"a","n","c","i","e","n","t">>
Str_modern == <<"m","o","d","e","r","n">>
Str_headword == <<"h","e","a","d","w","o","r","d">>
Str_translation == <<"t","r","a","n","s","l","a","t","i","o","n">>
Str_word == <<"w","o","r","d">>
Str_meaning == <<"m","e","a","n","i","n","g">>

\* any(re.search(pattern, line_lower) for pattern in self.column_patterns)
MatchesColumnPattern(line_lower) ==
  \/ SearchThree(line_lower, Str_english, Str_ancient, Str_modern)
  \/ SearchTwo(line_lower, Str_english, Str_ancient)
  \/ SearchTwo(line_lower, Str_english, Str_modern)
  \/ SearchTwo(line_lower, Str_headword, Str_translation)
  \/ SearchPiped(line_lower, Str_word, Str_meaning)

\* [m.start() for m in re.finditer(r'\s+\|\s+', s)], searching from index i
RECURSIVE PipeSeparatorStarts(_, _)
PipeSeparatorStarts(s, i) ==
  IF i > Len(s) THEN <<>>
  ELSE
    LET q == SkipWhile(s, Whitespace, i) IN
    IF /\ s[i] \in Whitespace
       /\ q <= Len(s) /\ s[q] = "|"
       /\ q + 1 <= Len(s) /\ s[q + 1] \in Whitespace
    THEN <<i - 1>> \o PipeSeparatorStarts(s, SkipWhile(s, Whitespace, q + 1))
    ELSE PipeSeparatorStarts(s, i + 1)

\* [m.start() for m in re.finditer(cs{n,}, s)]: the starts of the runs of at
\* least n characters of cs, searching from index i
RECURSIVE RunStarts(_, _, _, _)
RunStarts(s, cs, n, i) ==
  IF i > Len(s) THEN <<>>
  ELSE
    LET q == SkipWhile(s, cs, i) IN
    IF q - i >= n THEN <<i - 1>> \o RunStarts(s, cs, n, q)
    ELSE IF q > i THEN RunStarts(s, cs, n, q)
    ELSE RunStarts(s, cs, n, i + 1)

\* the fallback of detect_columns: estimated positions after each word but
\* the last
RECURSIVE EstimatedBoundaries(_, _)
EstimatedBoundaries(words, pos) ==
  IF Len(words) <= 1 THEN <<>>
  ELSE <<pos + Len(words[1]) + 1>> \o
       EstimatedBoundaries(Tail(words), pos + Len(words[1]) + 1)

detect_columns(header_line) ==
  LET pipes == PipeSeparatorStarts(header_line, 1)
      spaces == RunStarts(header_line, Whitespace, 3, 1)
      tabs == RunStarts(header_line, {"\t"}, 1, 1)
      words == SplitWords(header_line)
  IN IF pipes # <<>> THEN pipes
     ELSE IF spaces # <<>> THEN spaces
     ELSE IF tabs # <<>> THEN tabs
     ELSE IF Len(words) >= 2 THEN EstimatedBoundaries(words, 0)
     ELSE <<>>

\* [col.strip() for col in cols]
StripAll(cols) == [i \in 1..Len(cols) |-> Strip(cols[i])]

\* the boundary loop of split_into_columns
RECURSIVE SliceColumns(_, _, _)
SliceColumns(line, boundaries, start) ==
  IF boundaries = <<>> THEN <<Strip(Slice(line, start, Len(line)))>>
  ELSE <<Strip(Slice(line, start, boundaries[1]))>> \o
       SliceColumns(line, Tail(boundaries), boundaries[1])

split_into_columns(line, boundaries) ==
  IF boundaries = <<>> THEN <<Strip(line)>>
  ELSE IF "|" \in Range(line) THEN StripAll(SplitOn(line, "|"))
  ELSE SliceColumns(line, boundaries, 0)

Str_pos == <<"p","o","s">>
Str_part == <<"p","a","r","t">>
Str_note == <<"n","o","t","e">>
Str_comment == <<"c","o","m","m","e","n","t">>

\* the loop that maps column names to indices (from 0), column j onwards
RECURSIVE MapColumns(_, _, _)
MapColumns(columns, j, column_map) ==
  IF j >= Len(columns) THEN column_map
  ELSE
    LET col_lower == Strip(Lower(columns[j + 1])) IN
    MapColumns(columns, j + 1,
      IF Contains(Str_english, col_lower) \/ Contains(Str_headword, col_lower)
         \/ Contains(Str_word, col_lower)
      THEN DictSet(column_map, "english", j)
      ELSE IF Contains(Str_ancient, col_lower)
      THEN DictSet(column_map, "ancient", j)
      ELSE IF Contains(Str_modern, col_lower)
      THEN DictSet(column_map, "modern", j)
      ELSE IF Contains(Str_pos, col_lower) \/ Contains(Str_part, col_lower)
      THEN DictSet(column_map, "pos", j)
      ELSE IF Contains(Str_note, col_lower) \/ Contains(Str_comment, col_lower)
      THEN DictSet(column_map, "notes", j)
      ELSE column_map)

detect_table_type(columns) ==
  LET column_text == Lower(Join(columns, <<" ">>)) IN
  IF Contains(Str_ancient, column_text) /\ Contains(Str_modern, column_text)
  THEN "dual"
  ELSE IF Contains(Str_ancient, column_text) \/ Contains(Str_modern, column_text)
  THEN "single"
  ELSE "unknown"

\* no header found
NoHeader ==
  [found |-> FALSE, boundaries |-> <<>>, columns |-> EmptyDict,
   header_line |-> 0, table_type |-> "unknown"]

\* a line of parse_header's loop is a header: a column pattern matches and
\* the line splits into two columns or more
IsHeaderLine(line) ==
  /\ MatchesColumnPattern(Strip(Lower(line)))
  /\ detect_columns(line) # <<>>
  /\ Len(split_into_columns(line, detect_columns(line))) >= 2

\* parse_header(lines): the first of the first five lines that is a header
\* (header_line counts from 0), or None
parse_header(lines) ==
  LET first5 == {i \in 1..Len(lines) : i <= 5} IN
  IF \E i \in first5 : IsHeaderLine(lines[i])
  THEN
    LET i == CHOOSE i \in first5 :
               IsHeaderLine(lines[i]) /\
               \A j \in 1..(i - 1) : ~IsHeaderLine(lines[j])
        boundaries == detect_columns(lines[i])
        columns == split_into_columns(lines[i], boundaries)
    IN [found |-> TRUE, boundaries |-> boundaries,
        columns |-> MapColumns(columns, 0, EmptyDict),
        header_line |-> i - 1, table_type |-> detect_table_type(columns)]
  ELSE NoHeader

header_indicators == { Str_english, Str_ancient, Str_modern, Str_headword }

is_table_header(line) ==
  LET line_lower == Strip(Lower(line)) IN
  \/ MatchesColumnPattern(line_lower)
  \/ \E indicator \in header_indicators :
       \/ StartsWith(line_lower, indicator)
       \/ Contains(<<"|", " ">> \o indicator, line_lower)
       \/ Contains(<<" ">> \o indicator \o <<" ", "|">>, line_lower)
  \/ StartsWith(line_lower, Str_word \o <<" ">>)

\* string.punctuation + the quote characters
PunctuationChars ==
  { "!", "\"", "#", "$", "%", "&", "'", "(", ")", "*", "+", ",", "-", ".", "/", ":", ";", "<", "=", ">", "?", "@", "[", "\\", "]", "^", "_", "U+0060", "{", "|", "}", "~" }

\* tok.strip(string.punctuation + quotes)
RECURSIVE _strip_punct_token(_)
_strip_punct_token(tok) ==
  IF tok # <<>> /\ tok[1] \in PunctuationChars
  THEN _strip_punct_token(Tail(tok))
  ELSE IF tok # <<>> /\ tok[Len(tok)] \in PunctuationChars
  THEN _strip_punct_token(SubSeq(tok, 1, Len(tok) - 1))
  ELSE tok

_STOPWORDS ==
  { <<"t","h","i","s">>,
    <<"i","s">>,
    <<"j","u","s","t">>,
    <<"s","o","m","e">>,
    <<"t","e","x","t">>,
    <<"w","i","t","h">>,
    <<"n","o">>,
    <<"t","a","b","l","e">>,
    <<"s","t","r","u","c","t","u","r","e">>,
    <<"a","t">>,
    <<"a","l","l">> }

\* the characters a delimiter of _DELIM_RE starts with: | : arrow, em dash,
\* en dash, hyphen ("->" starts with the hyphen)
DelimiterChars == {"|", ":", "U+2192", "U+2014", "U+2013", "-"}

\* the index of the first element of the run of characters of cs that ends
\* right before index i (i itself when there is no such run)
RECURSIVE RunStartBefore(_, _, _)
RunStartBefore(s, cs, i) ==
  IF i > 1 /\ s[i - 1] \in cs THEN RunStartBefore(s, cs, i - 1) ELSE i

\* _DELIM_RE.search(line): a pipe, a colon, "->", a hyphen, the arrow or a
\* dash, with the whitespace around it.  The leftmost match is the first
\* delimiter; left and right are line[:m.start()].strip() and
\* line[m.end():].strip()
DelimSearch(line) ==
  LET d == FindFrom(line, DelimiterChars, 1) IN
  IF d > Len(line) THEN [found |-> FALSE, left |-> <<>>, right |-> <<>>]
  ELSE
    LET width == IF line[d] = "-" /\ d < Len(line) /\ line[d + 1] = ">"
                 THEN 2 ELSE 1
        start == RunStartBefore(line, Whitespace, d)
        end == SkipWhile(line, Whitespace, d + width)
    IN [found |-> TRUE,
        left |-> Strip(SubSeq(line, 1, start - 1)),
        right |-> Strip(SubSeq(line, end, Len(line)))]

\* re.sub of a trailing parenthetical by nothing: drop a parenthetical that ends
\* the line, with the whitespace around it
StripTrailingParenthetical(line) ==
  LET body == RStrip(line)
      n == Len(body)
  IN
  IF n = 0 \/ body[n] # ")" THEN line
  ELSE
    LET closers == {i \in 1..(n - 1) : body[i] = ")"}
        q == IF closers = {} THEN 0
             ELSE CHOOSE i \in closers : \A j \in closers : j <= i
        openers == {i \in (q + 1)..(n - 1) : body[i] = "("}
    IN IF openers = {} THEN line
       ELSE LET o == CHOOSE i \in openers : \A j \in openers : i <= j IN
            SubSeq(line, 1, RunStartBefore(line, Whitespace, o) - 1)

\* str.isalpha()
IsAlpha(s) == s # <<>> /\ \A i \in 1..Len(s) : IsAlphaChar(s[i])
AnyAlpha(s) == \E i \in 1..Len(s) : IsAlphaChar(s[i])

Str_Page == <<"P","a","g","e"," ">>
Str_Chapter == <<"C","h","a","p","t","e","r"," ">>
Str_Section == <<"S","e","c","t","i","o","n"," ">>
HeaderLeftWords == { Str_english, Str_word, Str_headword }
HeaderRightWords ==
  { Str_ancient, Str_modern, Str_meaning, Str_translation, <<"l","i","b","r","U+00E1","n">> }
NoiseFragments == { <<"f","o">>, <<"o","t">>, <<"e","r">>, <<"t","e">>, <<"x","t">> }

is_entry_line(line) ==
  IF line = <<>> \/ Strip(line) = <<>> THEN FALSE
  ELSE IF \/ StartsWith(line, Str_Page) \/ StartsWith(line, Str_Chapter)
          \/ StartsWith(line, Str_Section) \/ Len(line) < 3
  THEN FALSE
  ELSE
    LET split == DelimSearch(line) IN
    IF split.found
    THEN
      LET left == split.left
          right == split.right
          parts == StripAll(SplitOn(Lower(line), "|"))
          lt == _strip_punct_token(Lower(left))
          rt == _strip_punct_token(Lower(right))
      IN
      IF left = <<>> \/ right = <<>> THEN FALSE
      ELSE IF Strip(Lower(left)) \in HeaderLeftWords /\
              Strip(Lower(right)) \in HeaderRightWords
      THEN FALSE
      ELSE IF /\ "|" \in Range(line)
              /\ Len(parts) >= 2
              /\ \E i \in 1..Len(parts) : parts[i] \in HeaderLeftWords
              /\ \E i \in 1..Len(parts) : parts[i] \in HeaderRightWords
      THEN FALSE
      ELSE IF lt = <<>> \/ rt = <<>> THEN FALSE
      ELSE IF lt \in _STOPWORDS /\ rt \in _STOPWORDS THEN FALSE
      ELSE IF ~AnyAlpha(lt) \/ ~AnyAlpha(rt) THEN FALSE
      ELSE IF Len(lt) < 1 \/ Len(rt) < 1 THEN FALSE
      ELSE TRUE
    ELSE
      LET parts == SplitWords(StripTrailingParenthetical(line)) IN
      IF 2 <= Len(parts) /\ Len(parts) <= 3
      THEN
        LET lhs == _strip_punct_token(Lower(parts[1]))
            rhs == _strip_punct_token(Lower(parts[2]))
        IN
        IF lhs = <<>> \/ rhs = <<>> THEN FALSE
        ELSE IF lhs \in _STOPWORDS /\ rhs \in _STOPWORDS THEN FALSE
        ELSE IF \/ lhs \in _STOPWORDS
                \/ (Len(lhs) < 3 /\ lhs \in NoiseFragments)
                \/ (Len(rhs) < 3 /\ rhs \in NoiseFragments)
        THEN FALSE
        ELSE IF ~IsAlpha(lhs) \/ ~IsAlpha(rhs) THEN FALSE
        ELSE IF Len(lhs) < 2 \/ Len(rhs) < 3 THEN FALSE
        ELSE TRUE
      ELSE FALSE

\* an Optional[Entry]: None, or an entry
NoEntry == [found |-> FALSE, entry |-> EntryDefaults]
SomeEntry(e) == [found |-> TRUE, entry |-> e]

\* the value of column `name` of a row, or None when the header has no such
\* column or the row is too short
ColumnValue(columns, column_values, name) ==
  IF name \in DOMAIN columns /\ columns[name] < Len(column_values)
  THEN column_values[columns[name] + 1]
  ELSE None

parse_entry_line(line, column_info) ==
  LET boundaries == column_info.boundaries
      columns == column_info.columns
      column_values == split_into_columns(line, boundaries)
      raw_english == ColumnValue(columns, column_values, "english")
      raw_ancient == ColumnValue(columns, column_values, "ancient")
      raw_modern == ColumnValue(columns, column_values, "modern")
      raw_pos == ColumnValue(columns, column_values, "pos")
      raw_notes == ColumnValue(columns, column_values, "notes")
      english == IF raw_english = None THEN None ELSE clean_headword(raw_english)
      ancient == IF raw_ancient = None THEN None ELSE clean_translation(raw_ancient)
      modern == IF raw_modern = None THEN None ELSE clean_translation(raw_modern)
      pos == IF raw_pos = None THEN None ELSE Strip(raw_pos)
      notes == IF raw_notes = None THEN None ELSE Strip(raw_notes)
  IN IF ~Truthy(english) \/ (~Truthy(ancient) /\ ~Truthy(modern))
     THEN NoEntry
     ELSE SomeEntry(Entry([english |-> english, ancient |-> ancient,
                           modern |-> modern, pos |-> pos, notes |-> notes]))

\* the second loop of normalize_table_text, from line i on: a first column
\* that ends in a hyphen is joined with the first column of the next row
RECURSIVE JoinTableRows(_, _)
JoinTableRows(normalized_lines, i) ==
  IF i >= Len(normalized_lines) THEN normalized_lines
  ELSE
    LET current_line == Strip(normalized_lines[i])
        next_line == Strip(normalized_lines[i + 1])
        current_parts == SplitOn(current_line, "|")
        next_parts == SplitOn(next_line, "|")
    IN
    IF /\ current_line # <<>> /\ next_line # <<>>
       /\ "|" \in Range(current_line) /\ "|" \in Range(next_line)
       /\ Len(current_parts) >= 2 /\ Len(next_parts) >= 2
       /\ EndsWith(Strip(current_parts[1]), <<"-">>)
       /\ Strip(next_parts[1]) # <<>>
       /\ ~IsUpperChar(Strip(next_parts[1])[1])
    THEN
      LET first == Strip(current_parts[1])
          joined_first == SubSeq(first, 1, Len(first) - 1) \o Strip(next_parts[1])
          new_line == joined_first \o <<" ", "|">> \o
                      Join(Tail(current_parts), <<"|">>)
      IN JoinTableRows(
           SubSeq(normalized_lines, 1, i - 1) \o <<new_line>> \o
           SubSeq(normalized_lines, i + 2, Len(normalized_lines)), i)
    ELSE JoinTableRows(normalized_lines, i + 1)

normalize_table_text(page_text) ==
  JoinTableRows(restore_hyphenated_words(SplitOn(page_text, "\n")), 1)

\* detect_dual_table_clusters.  A cluster is a dict that the list `clusters`
\* and the variable current_cluster refer to: the model keeps the dicts in
\* `store` under their start_line and the references in `clusters` and
\* `current_cluster` (-1: None), so a dict appended twice is the same dict.
NoCluster == -1
RECURSIVE DetectFrom(_, _, _)
DetectFrom(lines, i, st) ==
  IF i >= Len(lines)
  THEN IF st.current_cluster # NoCluster
       THEN [st EXCEPT !.clusters = Append(@, st.current_cluster)]
       ELSE st
  ELSE
    LET line == Strip(lines[i + 1]) IN
    IF is_table_header(line)
    THEN
      LET st1 == IF st.current_cluster # NoCluster
                 THEN [st EXCEPT !.clusters = Append(@, st.current_cluster)]
                 ELSE st
          header_info == parse_header(<<line>>)
      IN DetectFrom(lines, i + 1,
           IF header_info.found
           THEN [st1 EXCEPT
                   !.current_cluster = i,
                   !.store = DictSet(@, i,
                                [header_info |-> header_info, start_line |-> i,
                                 end_line |-> i, entries |-> <<>>])]
           ELSE st1)
    ELSE IF st.current_cluster # NoCluster /\ is_entry_line(line)
    THEN
      LET c == st.current_cluster
          entry == parse_entry_line(line, st.store[c].header_info)
      IN DetectFrom(lines, i + 1,
           [st EXCEPT
              !.store[c].entries = IF entry.found THEN Append(@, entry.entry)
                                   ELSE @,
              !.store[c].end_line = i])
    ELSE DetectFrom(lines, i + 1, st)

\* the list returned: each reference of `clusters` with the dict it points to
ClusterList(st) == [k \in 1..Len(st.clusters) |-> st.store[st.clusters[k]]]

detect_dual_table_clusters(lines) ==
  ClusterList(DetectFrom(lines, 0,
                [clusters |-> <<>>, current_cluster |-> NoCluster,
                 store |-> EmptyDict]))

\* the loop of parse_dual_table_layout / parse_single_table_layout over the
\* lines after the header, from line i (from 0) on
RECURSIVE LayoutEntries(_, _, _, _)
LayoutEntries(lines, i, header_info, dual) ==
  IF i >= Len(lines) THEN <<>>
  ELSE
    LET line == lines[i + 1]
        entry == parse_entry_line(line, header_info)
        keep == /\ is_entry_line(line)
                /\ entry.found
                /\ IF dual THEN has_ancient(entry.entry) /\ has_modern(entry.entry)
                   ELSE is_complete(entry.entry)
    IN (IF keep THEN <<entry.entry>> ELSE <<>>) \o
       LayoutEntries(lines, i + 1, header_info, dual)

\* both layout parsers after their call of parse_header
LayoutAfterHeader(lines, header_info, dual) ==
  IF \/ ~header_info.found
     \/ header_info.table_type # (IF dual THEN "dual" ELSE "single")
  THEN <<>>
  ELSE LayoutEntries(lines, header_info.header_line + 1, header_info, dual)

parse_dual_table_layout(lines) ==
  LayoutAfterHeader(lines, parse_header(lines), TRUE)

parse_single_table_layout(lines) ==
  LayoutAfterHeader(lines, parse_header(lines), FALSE)

\* the generic structured scan of parse_page (lines 471-477)
RECURSIVE StructuredEntries(_, _, _)
StructuredEntries(lines, i, column_info) ==
  IF i >= Len(lines) THEN <<>>
  ELSE
    LET line == lines[i + 1]
        entry == parse_entry_line(line, column_info)
    IN (IF is_entry_line(line) /\ entry.found THEN <<entry.entry>> ELSE <<>>)
       \o StructuredEntries(lines, i + 1, column_info)

\* complex_pattern of parse_unstructured_entry, matched at the start of the
\* whole text:
\*   group 1  [A-Z][a-zA-Z\s'-]+?   lazy
\*            \s*[:-]\s*            colon, em dash or hyphen
\*   group 2  [^,]+?                lazy
\*   group 3  (?:,\s*([^,]+?))?     optional
\*   group 4  (?:\s*\(([^)]+)\))?   optional, then the end of the text
\* The sets below hold the positions at which each piece can end (or start)
\* so that the rest of the text still matches; the regex engine takes the
\* shortest lazy group and the longest run of whitespace among them.
Group1Chars ==
  Range(UpperLetters) \cup Range(LowerLetters) \cup Whitespace \cup {"'", "-"}
ComplexDelimiters == {":", "U+2014", "-"}
CommaFree(text, x, y) == \A k \in x..y : text[k] # ","
MinOf(S) == CHOOSE x \in S : \A y \in S : x <= y
MaxOf(S) == CHOOSE x \in S : \A y \in S : y <= x

\* the index of the "(" of group 4 when the text after index k is group 4,
\* else 0
ParenOpen(text, k) ==
  LET o == SkipWhile(text, Whitespace, k + 1)
      n == Len(text)
  IN IF /\ o < n - 1 /\ text[o] = "(" /\ text[n] = ")"
        /\ \A x \in (o + 1)..(n - 1) : text[x] # ")"
     THEN o ELSE 0
TailMatches(text, k) == k = Len(text) \/ ParenOpen(text, k) # 0
Group3Ends(text, s3) ==
  {e3 \in s3..Len(text) : CommaFree(text, s3, e3) /\ TailMatches(text, e3)}
Group3Starts(text, c) ==
  IF c + 1 <= Len(text) /\ text[c + 1] = ","
  THEN {s3 \in (c + 2)..SkipWhile(text, Whitespace, c + 2) :
          Group3Ends(text, s3) # {}}
  ELSE {}
Group2Ends(text, b) ==
  {c \in b..Len(text) :
     /\ CommaFree(text, b, c)
     /\ (Group3Starts(text, c) # {} \/ TailMatches(text, c))}
Group2Starts(text, d) ==
  {b \in (d + 1)..SkipWhile(text, Whitespace, d + 1) : Group2Ends(text, b) # {}}
Group1Ends(text) ==
  {a \in 2..Len(text) :
     /\ IsUpperChar(text[1])
     /\ \A k \in 2..a : text[k] \in Group1Chars
     /\ LET d == SkipWhile(text, Whitespace, a + 1) IN
        /\ d <= Len(text)
        /\ text[d] \in ComplexDelimiters
        /\ Group2Starts(text, d) # {}}

\* re.match(complex_pattern, full_text): the four groups (None: the group
\* took no part in the match)
ComplexMatch(text) ==
  IF text = <<>> \/ Group1Ends(text) = {}
  THEN [found |-> FALSE, g1 |-> None, g2 |-> None, g3 |-> None, g4 |-> None]
  ELSE
    LET a == MinOf(Group1Ends(text))
        d == SkipWhile(text, Whitespace, a + 1)
        b == MaxOf(Group2Starts(text, d))
        c == MinOf(Group2Ends(text, b))
        has3 == Group3Starts(text, c) # {}
        s3 == IF has3 THEN MaxOf(Group3Starts(text, c)) ELSE 0
        e3 == IF has3 THEN MinOf(Group3Ends(text, s3)) ELSE 0
        k == IF has3 THEN e3 ELSE c
        o == ParenOpen(text, k)
    IN [found |-> TRUE,
        g1 |-> SubSeq(text, 1, a),
        g2 |-> SubSeq(text, b, c),
        g3 |-> IF has3 THEN SubSeq(text, s3, e3) ELSE None,
        g4 |-> IF o # 0 THEN SubSeq(text, o + 1, Len(text) - 1) ELSE None]

\* the body of parse_unstructured_entry once the text is joined, the complex
\* pattern matched, the delimiter searched and the text without its trailing
\* parenthetical split into words
EntryFromText(full_text, match, delim, words) ==
  LET english == clean_headword(match.g1)
      ancient == IF Truthy(match.g2) THEN clean_translation(match.g2) ELSE None
      modern == IF Truthy(match.g3) THEN clean_translation(match.g3) ELSE None
      notes == IF Truthy(match.g4) THEN match.g4 ELSE None
  IN
  IF match.found /\ Truthy(english) /\ (Truthy(ancient) \/ Truthy(modern))
  THEN SomeEntry(Entry([english |-> english, ancient |-> ancient,
                        modern |-> modern, notes |-> notes]))
  ELSE IF delim.found
  THEN IF delim.left # <<>> /\ delim.right # <<>>
       THEN SomeEntry(Entry([english |-> clean_headword(delim.left),
                             ancient |-> clean_translation(delim.right),
                             modern |-> None]))
       ELSE NoEntry
  ELSE IF Len(SplitWords(full_text)) >= 2 /\ Len(words) >= 2
  THEN SomeEntry(Entry([english |-> clean_headword(words[1]),
                        ancient |-> clean_translation(words[2]),
                        modern |-> None]))
  ELSE NoEntry

\* ' '.join(lines), then the three attempts on the joined text
EntryFromJoined(full_text) ==
  EntryFromText(full_text, ComplexMatch(full_text), DelimSearch(full_text),
                SplitWords(StripTrailingParenthetical(full_text)))

parse_unstructured_entry(lines) ==
  IF lines = <<>> THEN NoEntry ELSE EntryFromJoined(Join(lines, <<" ">>))

\* ParsedPage(page_number=..., raw_text=...) and ParsedPage.add_entry
ParsedPage(page_number, raw_text) ==
  [page_number |-> page_number, entries |-> <<>>, raw_text |-> raw_text,
   parsing_notes |-> <<>>]
add_entry(parsed_page, entry) ==
  [parsed_page EXCEPT !.entries = Append(@, entry)]

\* the index after the continuation lines that follow line i: the first
\* line from j on that is blank or entry-shaped, or the end
RECURSIVE ContinuationEnd(_, _)
ContinuationEnd(lines, j) ==
  IF j <= Len(lines) /\ Strip(lines[j]) # <<>> /\ ~is_entry_line(lines[j])
  THEN ContinuationEnd(lines, j + 1) ELSE j

\* lines 512-514: the entry, if there is one, gets the page number and is
\* added to the page
AddParsed(parsed_page, entry) ==
  IF entry.found
  THEN add_entry(parsed_page,
         [entry.entry EXCEPT !.source_page = parsed_page.page_number])
  ELSE parsed_page

\* parse_unstructured_text(lines, parsed_page), from line i (from 1) on;
\* EntryAt handles the entry line i whose continuation lines end before j
RECURSIVE UnstructuredFrom(_, _, _)
RECURSIVE EntryAt(_, _, _, _)
EntryAt(lines, i, j, parsed_page) ==
  UnstructuredFrom(lines, j,
    AddParsed(parsed_page,
      parse_unstructured_entry(
        <<Strip(lines[i])>> \o StripAll(SubSeq(lines, i + 1, j - 1)))))
UnstructuredFrom(lines, i, parsed_page) ==
  IF i > Len(lines) THEN parsed_page
  ELSE IF is_entry_line(Strip(lines[i]))
  THEN EntryAt(lines, i, ContinuationEnd(lines, i + 1), parsed_page)
  ELSE UnstructuredFrom(lines, i + 1, parsed_page)

parse_unstructured_text(lines, parsed_page) ==
  UnstructuredFrom(lines, 1, parsed_page)

\* what a call of parse_page ends with
PageReturn(parsed_page) == [exc |-> "none", ret |-> parsed_page]
PageRaise(x) == [exc |-> x, ret |-> ParsedPage(0, <<>>)]

\* [e with source_page = page_number for e in entries]
WithSourcePage(entries, page_number) ==
  [i \in 1..Len(entries) |-> [entries[i] EXCEPT !.source_page = page_number]]

\* the entries of the clusters in order, each with source_page and
\* table_order set (lines 445-449)
RECURSIVE ClusterEntries(_, _, _)
ClusterEntries(clusters, table_order, page_number) ==
  IF table_order >= Len(clusters) THEN <<>>
  ELSE
    LET es == clusters[table_order + 1].entries IN
    [i \in 1..Len(es) |->
       [f \in EntryFields |->
          IF f = "source_page" THEN page_number
          ELSE IF f = "table_order" THEN table_order
          ELSE es[i][f]]]
    \o ClusterEntries(clusters, table_order + 1, page_number)

\* lines 479-487: the entries of the table get the page number; a table
\* without entries falls back to parse_unstructured_text
PageFromEntries(parsed_page, unstructured, entries) ==
  IF entries # <<>>
  THEN PageReturn([parsed_page EXCEPT
         !.entries = WithSourcePage(entries, parsed_page.page_number)])
  ELSE PageReturn(unstructured)

\* the body of parse_page once the text is normalized, the clusters are
\* detected and the header is parsed; `fallback` is what
\* parse_unstructured_text makes of the page.
\* Line 448 assigns entry.table_order; class Entry declares no such field,
\* and assigning an undeclared attribute of a pydantic model is a ValueError.
PageFromClusters(normalized_lines, parsed_page, clusters, column_info, fallback) ==
  IF clusters # <<>>
  THEN
    IF \E k \in 1..Len(clusters) : clusters[k].entries # <<>>
    THEN
      IF "table_order" \in EntryFields
      THEN PageReturn([parsed_page EXCEPT
             !.entries = ClusterEntries(clusters, 0, parsed_page.page_number)])
      ELSE PageRaise("ValueError")
    ELSE PageReturn(fallback)
  ELSE IF column_info.found
  THEN PageFromEntries(parsed_page, fallback,
         IF column_info.table_type = "dual"
         THEN parse_dual_table_layout(normalized_lines)
         ELSE IF column_info.table_type = "single"
         THEN parse_single_table_layout(normalized_lines)
         ELSE StructuredEntries(normalized_lines, column_info.header_line + 1,
                                column_info))
  ELSE PageReturn(fallback)

PageFromLines(normalized_lines, parsed_page) ==
  PageFromClusters(normalized_lines, parsed_page,
                   detect_dual_table_clusters(normalized_lines),
                   parse_header(normalized_lines),
                   parse_unstructured_text(normalized_lines, parsed_page))

\* parse_page(page_text, page_number) -> ParsedPage, or an exception
parse_page(page_text, page_number) ==
  PageFromLines(normalize_table_text(page_text),
                ParsedPage(page_number, page_text))

\* ParsePdfPage without the try: the exception of parse_page leaves the loop
ParsePdfPage_no_try(st, page) ==
  LET r == parse_page(page.page_text, page.page_num) IN
  [parsed_pages |-> IF r.exc = "none" /\ r.ret.entries # <<>>
                    THEN Append(st.parsed_pages, r.ret)
                    ELSE st.parsed_pages,
   page_log |-> Append(st.page_log, [page_num |-> page.page_num, exc |-> r.exc,
                                     ret |-> r.ret]),
   exc |-> r.exc]

\* one iteration of the loop of parse_pdf_pages: the page is parsed inside
\* try, kept when it has entries, and any Exception is caught and printed;
\* r is what parse_page did
PageParsed(st, page, r) ==
  [parsed_pages |-> IF r.exc = "none" /\ r.ret.entries # <<>>
                    THEN Append(st.parsed_pages, r.ret)
                    ELSE st.parsed_pages,
   page_log |-> Append(st.page_log, [page_num |-> page.page_num, exc |-> r.exc,
                                     ret |-> r.ret]),
   exc |-> "none"]
ParsePdfPage(st, page) ==
  PageParsed(st, page, parse_page(page.page_text, page.page_num))

\* parse_pdf_pages from the i-th page on; an exception that leaves the loop
\* body ends the call
RECURSIVE PdfPagesFrom(_, _, _)
PdfPagesFrom(pages, i, st) ==
  IF i > Len(pages) \/ st.exc # "none" THEN st
  ELSE PdfPagesFrom(pages, i + 1, ParsePdfPage(st, pages[i]))

parse_pdf_pages(pages) ==
  PdfPagesFrom(pages, 1, [parsed_pages |-> <<>>, page_log |-> <<>>,
                          exc |-> "none"])

\* -------------------------------------------------- libran_json_importer.py
\* str.upper() on one character of a headword (headwords of the JSON are
\* written in ASCII letters)
UpperChar(c) ==
  IF \E i \in 1..26 : LowerLetters[i] = c
  THEN UpperLetters[CHOOSE i \in 1..26 : LowerLetters[i] = c]
  ELSE c
\* str.capitalize(): the first character upper-cased, the rest lower-cased
Capitalize(s) ==
  IF s = <<>> THEN s ELSE <<UpperChar(s[1])>> \o Lower(Tail(s))

\* entry.get(key, ''): an entry of the JSON is a dict of strings
Get(entry, key) == IF key \in DOMAIN entry THEN entry[key] ELSE <<>>

\* re.sub(r'\([^)]*\)', '', word): every "(" that has a ")" after it is
\* removed together with the text up to the first such ")"
RECURSIVE RemoveParentheticals(_)
RemoveParentheticals(word) ==
  LET o == FindFrom(word, {"("}, 1)
      c == FindFrom(word, {")"}, o + 1)
  IN IF o > Len(word) \/ c > Len(word) THEN word
     ELSE SubSeq(word, 1, o - 1) \o
          RemoveParentheticals(SubSeq(word, c + 1, Len(word)))

\* the alternatives of the two prefix patterns of _clean_libran_word, in
\* the order of the patterns
EnglishPrefixes ==
  << <<"C","o","r","e">>, <<"S","a","c","r","e","d">>, <<"F","a","t","e">>,
     <<"F","i","r","e">>, <<"f","l","a","m","e">>,
     <<"C","o","n","c","e","a","l","m","e","n","t">>,
     <<"F","o","u","n","d","a","t","i","o","n">>, <<"W","r","a","t","h">>,
     <<"H","e","a","r","t">>, <<"f","o","r","c","e">>,
     <<"P","r","o","p","h","e","c","y">>,
     <<"J","e","a","l","o","u","s","y">>, <<"T","r","u","s","t">>,
     <<"b","e","l","i","e","f">>, <<"D","r","e","a","d">>,
     <<"B","l","e","s","s","i","n","g">>,
     <<"C","e","l","e","b","r","a","t","i","o","n">>,
     <<"A","f","f","e","c","t","i","o","n">>, <<"b","o","n","d">>,
     <<"C","o","m","p","a","s","s","i","o","n">>, <<"G","r","i","e","f">>,
     <<"P","r","o","p","h","e","t","i","c">>, <<"s","i","g","h","t">>,
     <<"L","i","n","e","a","l">>, <<"s","p","i","r","i","t">>,
     <<"R","e","v","e","r","e","d">>, <<"d","e","a","d">>,
     <<"F","o","r","e","b","e","a","r","s">>, <<"B","o","w">>,
     <<"w","a","r","r","i","o","r">>, <<"S","i","n","g","e","r">>,
     <<"h","i","s","t","o","r","y">>, <<"K","i","n","s","h","i","p">>,
     <<"I","n","n","o","c","e","n","t">>,
     <<"B","l","o","o","d","l","i","n","e">>,
     <<"C","o","l","l","e","c","t","i","v","e">>, <<"O","l","d">>,
     <<"a","g","e">>, <<"w","i","s","d","o","m">>,
     <<"O","p","p","o","n","e","n","t">>, <<"F","o","e">>,
     <<"F","a","m","i","l","y">>, <<"g","r","o","u","p">>,
     <<"W","e","a","v","e","r","s">>, <<"d","e","s","t","i","n","y">>,
     <<"k","i","n">>, <<"t","e","r","m">>, <<"T","r","i","b","a","l">>,
     <<"p","a","t","r","i","a","r","c","h">>,
     <<"C","h","a","m","p","i","o","n">>, <<"B","r","a","v","e">>,
     <<"p","e","r","s","o","n">>, <<"O","u","r">> >>
MetadataPrefixes ==
  << <<"s","t","a","t","e","r","a">>, <<"f","a","t","u","m">>,
     <<"f","l","a","m","m","a">>, <<"m","e","m","o","r","i","a">>,
     <<"p","e","t","r","a">>, <<"i","r","a">>, <<"c","o","r">>,
     <<"v","i","s">>, <<"b","u","c","u","r","i","e">>,
     <<"m","i","l","U+0103">>, <<"s","o","r","g">>, <<"m","a","n","e","s">>,
     <<"s","a","g","i","t","t","a","r","i","u","s">>,
     <<"b","a","r","d","u","s">>, <<"f","r","a","t","e","r">>,
     <<"i","n","f","a","n","s">>,
     <<"a","n","t","e","c","e","s","s","o","r">>, <<"U+00E6","t","t">>,
     <<"g","e","n","s">>, <<"a","l","d","r","i">>,
     <<"h","o","s","t","i","s">>, <<"n","o","r","n","i","r">>,
     <<"p","a","t","e","r">>, <<"h","e","r","o","s">>,
     <<"r","o","k","o","n">> >>

\* word starts with w, ignoring case
StartsWithIgnoreCase(word, w) ==
  Len(word) >= Len(w) /\ Lower(SubSeq(word, 1, Len(w))) = Lower(w)

\* re.sub of the first pattern: the first alternative that starts the word
\* and is followed by a hyphen or the end of the word is removed
RemoveEnglishPrefix(word) ==
  LET Hit(k) == /\ StartsWithIgnoreCase(word, EnglishPrefixes[k])
                /\ \/ Len(word) = Len(EnglishPrefixes[k])
                   \/ word[Len(EnglishPrefixes[k]) + 1] = "-"
      hits == {k \in 1..Len(EnglishPrefixes) : Hit(k)}
  IN IF hits = {} THEN word
     ELSE SubSeq(word, Len(EnglishPrefixes[MinOf(hits)]) + 1, Len(word))

\* re.sub of the second pattern: the first alternative that starts the word
\* is removed, with the hyphen after it if there is one
RemoveMetadataPrefix(word) ==
  LET hits == {k \in 1..Len(MetadataPrefixes) :
                 StartsWithIgnoreCase(word, MetadataPrefixes[k])}
      n == Len(MetadataPrefixes[MinOf(hits)])
  IN IF hits = {} THEN word
     ELSE IF Len(word) > n /\ word[n + 1] = "-"
     THEN SubSeq(word, n + 2, Len(word))
     ELSE SubSeq(word, n + 1, Len(word))

\* str.lstrip('-')
RECURSIVE LStripHyphens(_)
LStripHyphens(word) ==
  IF word # <<>> /\ word[1] = "-" THEN LStripHyphens(Tail(word)) ELSE word

\* the characters the last re.sub keeps: word characters (the accented
\* letters the class lists are word characters) and the hyphen
KeepsLibranChar(c) == IsWordChar(c) \/ c = "-"

\* LibranJSONImporter._clean_libran_word(word)
_clean_libran_word(word) ==
  IF word = <<>> \/ word = <<"U+2014">> THEN <<>>
  ELSE
    LET w1 == RemoveParentheticals(Strip(word))
        w2 == RemoveEnglishPrefix(w1)
        w3 == RemoveMetadataPrefix(w2)
        w4 == LStripHyphens(w3)
        w5 == SelectSeq(w4, KeepsLibranChar)
    IN IF Len(w5) < 2 THEN <<>> ELSE w5

Str_EXCLUDED_No == <<"E","X","C","L","U","D","E","D",":"," ","N","o"," ">>
Str_translation_suffix == <<" ","t","r","a","n","s","l","a","t","i","o","n">>
Str_EXCLUDED_Invalid == <<"E","X","C","L","U","D","E","D",":"," ","I","n","v","a","l","i","d"," ","L","i","b","r","U+00E1","n"," ","w","o","r","d">>
\* the variant inside an f-string
VariantText(variant) == IF variant = "ancient" THEN Str_ancient ELSE Str_modern

\* what _process_entry appends to self.excluded_entries
ExcludedEntry(english, libran, variant, notes) ==
  Entry([english |-> english,
         ancient |-> IF variant = "ancient" THEN libran ELSE None,
         modern |-> IF variant = "modern" THEN libran ELSE None,
         notes |-> notes, source_page |-> 0, confidence |-> 0])

\* _process_entry without the check of the cleaned word (lines 93-103)
_process_entry_no_clean_check(self, entry, variant) ==
  LET english == Strip(Get(entry, "english"))
      libran == Strip(Get(entry, variant))
      english_clean == Capitalize(english)
      libran_clean == _clean_libran_word(libran)
  IN
  IF english = <<>> \/ libran = <<>> \/ libran = <<"U+2014">>
  THEN [self EXCEPT
          !.stats.excluded = @ + 1,
          !.excluded_entries = Append(@, ExcludedEntry(english, libran, variant,
              Str_EXCLUDED_No \o VariantText(variant) \o Str_translation_suffix))]
  ELSE IF variant = "ancient"
  THEN [self EXCEPT
          !.ancient_entries = DictSet(@, Lower(english_clean), libran_clean),
          !.stats.total_ancient = @ + 1]
  ELSE [self EXCEPT
          !.modern_entries = DictSet(@, Lower(english_clean), libran_clean),
          !.stats.total_modern = @ + 1]

\* LibranJSONImporter._process_entry(entry, variant, cluster)
_process_entry(self, entry, variant) ==
  LET english == Strip(Get(entry, "english"))
      libran == Strip(Get(entry, variant))
      english_clean == Capitalize(english)
      libran_clean == _clean_libran_word(libran)
  IN
  IF english = <<>> \/ libran = <<>> \/ libran = <<"U+2014">>
  THEN [self EXCEPT
          !.stats.excluded = @ + 1,
          !.excluded_entries = Append(@, ExcludedEntry(english, libran, variant,
              Str_EXCLUDED_No \o VariantText(variant) \o Str_translation_suffix))]
  ELSE IF libran_clean = <<>>
  THEN [self EXCEPT
          !.stats.excluded = @ + 1,
          !.excluded_entries = Append(@, ExcludedEntry(english_clean, libran,
              variant, Str_EXCLUDED_Invalid))]
  ELSE IF variant = "ancient"
  THEN [self EXCEPT
          !.ancient_entries = DictSet(@, Lower(english_clean), libran_clean),
          !.stats.total_ancient = @ + 1]
  ELSE [self EXCEPT
          !.modern_entries = DictSet(@, Lower(english_clean), libran_clean),
          !.stats.total_modern = @ + 1]

\* ------------------------------------------- normalize.py, continuations
\* prev_line.endswith(('.', '!', '?', ':'))
EndsSentence(prev_line) ==
  prev_line # <<>> /\ prev_line[Len(prev_line)] \in {".", "!", "?", ":"}

\* is_continuation_line(line, prev_line): both are stripped first
ContinuationOf(line, prev_line) ==
  IF line = <<>> \/ prev_line = <<>> THEN FALSE
  ELSE IF ~IsUpperChar(line[1]) THEN TRUE
  ELSE Len(line) < 10 /\ ~EndsSentence(prev_line)
is_continuation_line(line, prev_line) ==
  ContinuationOf(Strip(line), Strip(prev_line))

\* the inner while of merge_continuation_lines: the index (from 1) of the
\* first line from j on that does not continue `line`, the first line of
\* the group
RECURSIVE ContinuationStop(_, _, _)
ContinuationStop(ls, line, j) ==
  IF j <= Len(ls) /\ Strip(ls[j]) # <<>> /\ is_continuation_line(ls[j], line)
  THEN ContinuationStop(ls, line, j + 1)
  ELSE j

\* ' '.join of the stripped lines i .. j - 1
JoinedGroup(ls, i, j) ==
  Join([k \in 1..(j - i) |-> Strip(ls[i + k - 1])], <<" ">>)

\* the outer while of merge_continuation_lines, from line i on
RECURSIVE MergeFrom(_, _)
MergeFrom(ls, i) ==
  IF i > Len(ls) THEN <<>>
  ELSE <<JoinedGroup(ls, i, ContinuationStop(ls, Strip(ls[i]), i + 1))>> \o
       MergeFrom(ls, ContinuationStop(ls, Strip(ls[i]), i + 1))

merge_continuation_lines(ls) == MergeFrom(ls, 1)

\* ------------------------------------------------------------------ state
VARIABLES
  exclude_terms,      \* self.exclude_terms
  conflicts,          \* self.conflicts, in insertion order
  variants,           \* self.variants
  stats,              \* self.stats
  ancient_entries,    \* self.ancient_entries
  modern_entries,     \* self.modern_entries
  excluded_entries,   \* self.excluded_entries
  variant_entries,    \* self.variant_entries
  build_linked,       \* self.build's containers are the builder's own
  build_stats,        \* self.build.build_stats
  live,               \* history: entries accepted into a group and neither
                      \* dropped as duplicates nor absorbed by a merge
  last_call,          \* history: the last method called, how it ended and
                      \* the entry it was given
  returned,           \* history: what each build_dictionaries() returned
  prior,              \* history: how many filter_* and resolve_conflicts
                      \* calls there were, the builder as the last of them
                      \* found it, and the threshold it was given
  lines,              \* restore_hyphenated_words: the argument
  result,             \* restore_hyphenated_words: whether it was called and
                      \* the list it returned
  merged,             \* merge_continuation_lines: whether it was called and
                      \* the list it returned
  pdf_pages,          \* parse_pdf_pages: the (page_num, page_text) pairs that
                      \* extract_pages yields
  parsed_pages,       \* parse_pdf_pages: whether it was called, how it ended
                      \* and the list it returned
  page_log,           \* history: what parse_page did for each page, in the
                      \* order of the calls
  clusters,           \* detect_dual_table_clusters: whether it was called
                      \* and the list it returned
  header,             \* parse_header: whether it was called and what it
                      \* returned
  importer,           \* the LibranJSONImporter: ancient_entries,
                      \* modern_entries, excluded_entries, stats
  imported            \* history: the (entry, variant) of each _process_entry
                      \* call, in the order of the calls

builderVars == <<exclude_terms, conflicts, variants, stats, ancient_entries,
                 modern_entries, excluded_entries, variant_entries,
                 build_linked, build_stats, live, last_call, returned, prior>>
normalizerVars == <<lines, result, merged>>
parserVars == <<pdf_pages, parsed_pages, page_log, clusters, header>>
importerVars == <<importer, imported>>
nonBuilderVars == <<normalizerVars, parserVars, importerVars>>
vars == <<builderVars, nonBuilderVars>>

Self ==
  [exclude_terms |-> exclude_terms, conflicts |-> conflicts,
   variants |-> variants, stats |-> stats,
   ancient_entries |-> ancient_entries, modern_entries |-> modern_entries,
   excluded_entries |-> excluded_entries, variant_entries |-> variant_entries,
   build_linked |-> build_linked, build_stats |-> build_stats]

Assign(s) ==
  /\ exclude_terms' = s.exclude_terms
  /\ conflicts' = s.conflicts
  /\ variants' = s.variants
  /\ stats' = s.stats
  /\ ancient_entries' = s.ancient_entries
  /\ modern_entries' = s.modern_entries
  /\ excluded_entries' = s.excluded_entries
  /\ variant_entries' = s.variant_entries
  /\ build_linked' = s.build_linked
  /\ build_stats' = s.build_stats

\* DictionaryBuilder.__init__(exclude_terms)
InitBuilder(terms) ==
  /\ exclude_terms = terms
  /\ conflicts = <<>>
  /\ variants = EmptyDict
  /\ stats = [total_entries |-> 0, ancient_entries |-> 0,
              modern_entries |-> 0, excluded_entries |-> 0, conflicts |-> 0,
              variants |-> 0, pages_processed |-> 0]
  /\ ancient_entries = EmptyDict
  /\ modern_entries = EmptyDict
  /\ excluded_entries = <<>>
  /\ variant_entries = <<>>
  /\ build_linked = FALSE
  /\ build_stats = EmptyDict
  /\ live = {}
  /\ last_call = [op |-> "__init__", exc |-> "none", entry |-> EntryDefaults,
                  page |-> <<>>]
  /\ returned = <<>>
  /\ prior = [calls |-> 0, self |-> <<>>, threshold |-> 0]

\* no text is being normalized
NormalizerIdle ==
  /\ lines = <<>>
  /\ result = [called |-> FALSE, value |-> <<>>]
  /\ merged = [called |-> FALSE, value |-> <<>>]
\* no PDF is being parsed
ParserIdle ==
  /\ pdf_pages = <<>>
  /\ parsed_pages = [called |-> FALSE, exc |-> "none", value |-> <<>>]
  /\ page_log = <<>>
  /\ clusters = [called |-> FALSE, value |-> <<>>]
  /\ header = [called |-> FALSE, value |-> NoHeader]
\* LibranJSONImporter.__init__(), and no entry processed yet
ImporterIdle ==
  /\ importer = [ancient_entries |-> EmptyDict, modern_entries |-> EmptyDict,
                 excluded_entries |-> <<>>,
                 stats |-> [total_ancient |-> 0, total_modern |-> 0,
                            excluded |-> 0, clusters_processed |-> 0]]
  /\ imported = <<>>
NonBuilderIdle == NormalizerIdle /\ ParserIdle /\ ImporterIdle

\* the DictionaryBuild the caller holds after build_dictionaries returned
Build ==
  [ancient_entries |-> IF build_linked THEN ancient_entries ELSE EmptyDict,
   modern_entries |-> IF build_linked THEN modern_entries ELSE EmptyDict,
   excluded_entries |-> IF build_linked THEN excluded_entries ELSE <<>>,
   variant_entries |-> IF build_linked THEN variant_entries ELSE <<>>,
   build_stats |-> build_stats]

\* history: which entries are still owed to the output after process_entry
LiveAfter(s, l, entry) ==
  LET english_key == Lower(clean_headword(entry.english)) IN
  IF should_exclude(s.exclude_terms, entry).exclude THEN l
  ELSE IF ~HasKey(s.conflicts, english_key) THEN l \cup {entry}
  ELSE IF is_duplicate(GroupOf(s.conflicts, english_key), entry) THEN l
  ELSE IF _are_complementary(GroupOf(s.conflicts, english_key)[1], entry)
  THEN l \ {GroupOf(s.conflicts, english_key)[1]}
  ELSE l \cup {entry}

RECURSIVE LiveAfterAll(_, _, _)
LiveAfterAll(s, l, entries) ==
  IF entries = <<>> THEN l
  ELSE LiveAfterAll(process_entry(s, Head(entries)),
                    LiveAfter(s, l, Head(entries)), Tail(entries))

\* DictionaryBuilder(exclude_terms) before any call, as a record
FreshBuilder(terms) ==
  [exclude_terms |-> terms, conflicts |-> <<>>, variants |-> EmptyDict,
   stats |-> [total_entries |-> 0, ancient_entries |-> 0,
              modern_entries |-> 0, excluded_entries |-> 0, conflicts |-> 0,
              variants |-> 0, pages_processed |-> 0],
   ancient_entries |-> EmptyDict, modern_entries |-> EmptyDict,
   excluded_entries |-> <<>>, variant_entries |-> <<>>,
   build_linked |-> FALSE, build_stats |-> EmptyDict]

\* the thresholds given to filter_low_confidence, in tenths
Thresholds == {9, 10}

\* ----------------------------------------------------------------- actions
ProcessEntryOf(entry) ==
  /\ stats.total_entries < MaxProcessed
  /\ LET s == process_entry(Self, entry) IN Assign(s)
  /\ live' = LiveAfter(Self, live, entry)
  /\ last_call' = [op |-> "process_entry", exc |-> "none", entry |-> entry,
                   page |-> <<>>]
  /\ UNCHANGED <<returned, prior>>
  /\ UNCHANGED nonBuilderVars

ProcessPageOf(page) ==
  /\ stats.pages_processed < MaxPages
  /\ stats.total_entries + Len(page.entries) <= MaxProcessed
  /\ LET s == process_page(Self, page) IN Assign(s)
  /\ live' = LiveAfterAll(Self, live, page.entries)
  /\ last_call' = [op |-> "process_page", exc |-> "none",
                   entry |-> EntryDefaults, page |-> page.entries]
  /\ UNCHANGED <<returned, prior>>
  /\ UNCHANGED nonBuilderVars

BuildDictionaries ==
  /\ Len(returned) < MaxBuilds
  /\ LET r == build_dictionaries(Self) IN
     /\ Assign(r.state)
     /\ last_call' = [op |-> "build_dictionaries", exc |-> r.exc,
                      entry |-> EntryDefaults, page |-> <<>>]
     /\ returned' =
          IF r.exc = "none"
          THEN Append(returned,
                 [after |-> last_call,
                  ancient_entries |-> r.state.ancient_entries,
                  modern_entries |-> r.state.modern_entries,
                  variant_entries |-> r.state.variant_entries,
                  build_stats |-> r.state.build_stats])
          ELSE returned
  /\ UNCHANGED <<live, prior>>
  /\ UNCHANGED nonBuilderVars

\* history: the entries of the groups of a builder, and the entries of l
\* that a call which took the builder from Self to s did not take out of
\* the groups
Grouped(s) == UNION {Range(s.conflicts[i].entries) : i \in 1..Len(s.conflicts)}
StillInGroups(s, l) == l \ (Grouped(Self) \ Grouped(s))

\* self.filter_low_confidence(threshold), self.filter_incomplete_entries()
\* and self.filter_placeholder_entries(); s is the builder after the call
Filtered(op, threshold, s) ==
  /\ prior.calls < MaxFilters
  /\ Assign(s)
  /\ live' = StillInGroups(s, live)
  /\ last_call' = [op |-> op, exc |-> "none", entry |-> EntryDefaults,
                   page |-> <<>>]
  /\ prior' = [calls |-> prior.calls + 1, self |-> Self,
               threshold |-> threshold]
  /\ UNCHANGED returned
  /\ UNCHANGED nonBuilderVars

FilterLowConfidence ==
  \E threshold \in Thresholds :
    Filtered("filter_low_confidence", threshold,
             filter_low_confidence(Self, threshold))
FilterIncompleteEntries ==
  Filtered("filter_incomplete_entries", 0, filter_incomplete_entries(Self))
FilterPlaceholderEntries ==
  Filtered("filter_placeholder_entries", 0, filter_placeholder_entries(Self))

\* self.resolve_conflicts()
ResolveConflicts ==
  /\ prior.calls < MaxFilters
  /\ LET r == resolve_conflicts(Self) IN
     /\ Assign(r.state)
     /\ live' = StillInGroups(r.state, live)
     /\ last_call' = [op |-> "resolve_conflicts", exc |-> r.exc,
                      entry |-> EntryDefaults, page |-> <<>>]
  /\ prior' = [calls |-> prior.calls + 1, self |-> Self, threshold |-> 0]
  /\ UNCHANGED returned
  /\ UNCHANGED nonBuilderVars

\* ------------------------------------------------------------------ inputs
SeqsUpTo(S, n) == UNION {[1..k -> S] : k \in 0..n}

\* Spec: entries for two keys ("Ab!" cleans to the key of "ab") with
\* ancient-only, modern-only and full readings; the second ancient reading
\* (y) is the less confident one
Reading(h, a, m) ==
  Entry([english |-> h, ancient |-> a, modern |-> m,
         confidence |-> IF a = <<"y">> THEN 8 ELSE 9])
PageEntryPool ==
  { Reading(<<"a","b">>, <<"x">>, None), Reading(<<"a","b">>, None, <<"m">>) }
EntryPool ==
  PageEntryPool \cup
  { Reading(<<"a","b">>, <<"y">>, None),
    Reading(<<"a","b">>, <<"x">>, <<"m">>),
    Reading(<<"A","b","!">>, None, <<"m">>),
    Reading(<<"c","d">>, <<"x">>, None) }
PagePool ==
  { [page_number |-> 1, entries |-> es] :
      es \in SeqsUpTo(PageEntryPool, MaxPageLen) }

\* SpecResolve: rows for the one key "ab"; the n-th row processed carries the
\* n-th variant reading, so the rows of a run form one conflict group
RECURSIVE Rep(_, _)
Rep(c, n) == IF n = 0 THEN <<>> ELSE <<c>> \o Rep(c, n - 1)
Confidences == {8, 9}
SourcePages == {NoneInt, 2}
NotesPool ==
  { None, <<"P","r","i","m","a","r","y">>,
    <<"n","o","n","-","S","T","A","N","D","A","R","D">> }
ResolvePool(n) ==
  { Entry([english |-> <<"a","b">>, ancient |-> Rep("x", n), notes |-> nt,
           source_page |-> pg, confidence |-> c]) :
      nt \in NotesPool, pg \in SourcePages, c \in Confidences }

\* SpecExclude: headwords that meet the exclusion rules, alone and together,
\* with and without a translation
ExcludeLists == { {}, { <<>>, <<"a">>, <<"g","o","d">>, <<"c","d">> } }
ExcludeHeadwords ==
  { <<>>, <<" ">>, <<"a">>, <<"G","o","d">>,
    <<"t","r","e","a","s","u","r","e">>, <<"c","d">>, <<"a","b">> }
ExcludeReadings == { <<None, (<<" ">>)>>, <<(<<"x">>), None>> }
ExcludePool ==
  { Entry([english |-> h, ancient |-> t[1], modern |-> t[2]]) :
      h \in ExcludeHeadwords, t \in ExcludeReadings }

\* --------------------------------------------------------- specifications
ProcessEntry == \E entry \in EntryPool : ProcessEntryOf(entry)
ProcessPage == \E page \in PagePool : ProcessPageOf(page)

Init == InitBuilder({}) /\ NonBuilderIdle
Next == ProcessEntry \/ ProcessPage \/ BuildDictionaries
Spec == Init /\ [][Next]_vars

ProcessRow ==
  \E entry \in ResolvePool(stats.total_entries + 1) : ProcessEntryOf(entry)
\* one build per run, at any moment of it
BuildOnce == returned = <<>> /\ BuildDictionaries
NextResolve == ProcessRow \/ BuildOnce
SpecResolve == Init /\ [][NextResolve]_vars

InitExclude == (\E terms \in ExcludeLists : InitBuilder(terms)) /\ NonBuilderIdle
ProcessCandidate == \E entry \in ExcludePool : ProcessEntryOf(entry)
NextExclude == ProcessCandidate \/ BuildOnce
SpecExclude == InitExclude /\ [][NextExclude]_vars

\* restore_hyphenated_words(lines), called once on the lines given
RestoreHyphenatedWords ==
  /\ ~result.called
  /\ result' = [called |-> TRUE, value |-> restore_hyphenated_words(lines)]
  /\ UNCHANGED <<lines, merged>>
  /\ UNCHANGED <<builderVars, parserVars, importerVars>>

\* lines of a page: blank, ending in a hyphen (bare, padded, with a known
\* prefix), starting with a lowercase and with an uppercase letter
LinePool ==
  { <<>>,
    <<"a","b","-">>,
    <<"c","d">>,
    <<"C","d">>,
    <<"c","o","-">>,
    <<" ","a","b"," ","-","\t">> }
InitNormalize ==
  /\ InitBuilder({})
  /\ lines \in SeqsUpTo(LinePool, MaxLines)
  /\ result = [called |-> FALSE, value |-> <<>>]
  /\ merged = [called |-> FALSE, value |-> <<>>]
  /\ ParserIdle
  /\ ImporterIdle
NextNormalize == RestoreHyphenatedWords
SpecNormalize == InitNormalize /\ [][NextNormalize]_vars

\* the call ended as st says
PdfPagesReturned(st) ==
  /\ parsed_pages' = [called |-> TRUE, exc |-> st.exc,
                      value |-> st.parsed_pages]
  /\ page_log' = st.page_log

\* parse_pdf_pages(pdf_path), called once on the pages of the PDF
ParsePdfPages ==
  /\ ~parsed_pages.called
  /\ PdfPagesReturned(parse_pdf_pages(pdf_pages))
  /\ UNCHANGED <<pdf_pages, clusters, header>>
  /\ UNCHANGED <<builderVars, normalizerVars, importerVars>>

\* page texts: an entry with a colon, a table with a row, plain text, a
\* headword whose continuation line is a hyphen and a question mark, a lone
\* header, an entry with both translations and a note, a table with a row
\* that starts with the word "modern", an empty page, a header followed by
\* a second header of unknown type
PageTextPool ==
  { <<"c","a","t",":"," ","f","e","l","i","s">>,
    <<"E","n","g","l","i","s","h"," ","|"," ","A","n","c","i","e","n","t","\n","c","a","t"," ","|"," ","f","e","l","i","s">>,
    <<"t","h","i","s"," ","i","s"," ","j","u","s","t"," ","t","e","x","t">>,
    <<"c","a","t"," ","f","e","l","i","n","e","\n","-"," ","?">>,
    <<"E","n","g","l","i","s","h"," ","|"," ","A","n","c","i","e","n","t">>,
    <<"D","o","g",":"," ","c","a","n","i","s",","," ","c","a","n","e"," ","(","n",".",")">>,
    <<"E","n","g","l","i","s","h"," ","|"," ","A","n","c","i","e","n","t","\n","c","a","t"," ","|"," ","f","e","l","i","s","\n","m","o","d","e","r","n"," ","|"," ","n","o","v","u","s">>,
    <<"E","n","g","l","i","s","h"," ","|"," ","A","n","c","i","e","n","t","\n","H","e","a","d","w","o","r","d"," "," "," ","T","r","a","n","s","l","a","t","i","o","n">>,
    <<>> }
\* extract_pages numbers the pages from 1
NumberedPages(texts) ==
  [k \in 1..Len(texts) |-> [page_num |-> k, page_text |-> texts[k]]]
InitParse ==
  /\ InitBuilder({})
  /\ NormalizerIdle
  /\ \E texts \in SeqsUpTo(PageTextPool, MaxPdfPages) :
       pdf_pages = NumberedPages(texts)
  /\ parsed_pages = [called |-> FALSE, exc |-> "none", value |-> <<>>]
  /\ page_log = <<>>
  /\ clusters = [called |-> FALSE, value |-> <<>>]
  /\ header = [called |-> FALSE, value |-> NoHeader]
  /\ ImporterIdle
NextParse == ParsePdfPages
SpecParse == InitParse /\ [][NextParse]_vars

\* detect_dual_table_clusters(lines), called once on the lines given
DetectDualTableClusters ==
  /\ ~clusters.called
  /\ clusters' = [called |-> TRUE, value |-> detect_dual_table_clusters(lines)]
  /\ UNCHANGED <<pdf_pages, parsed_pages, page_log, header>>
  /\ UNCHANGED <<builderVars, normalizerVars, importerVars>>

\* lines of a page with tables: two headers, rows, a row that starts with
\* the word "modern", and text that is no row
TableLinePool ==
  { <<"E","n","g","l","i","s","h"," ","|"," ","A","n","c","i","e","n","t">>,
    <<"c","a","t"," ","|"," ","f","e","l","i","s">>,
    <<"m","o","d","e","r","n"," ","|"," ","n","o","v","u","s">>,
    <<"E","n","g","l","i","s","h"," ","|"," ","M","o","d","e","r","n">>,
    <<"d","o","g"," ","|"," ","c","a","n","e">>,
    <<"s","o","m","e"," ","t","e","x","t">> }
InitClusters ==
  /\ InitBuilder({})
  /\ lines \in SeqsUpTo(TableLinePool, MaxLines)
  /\ result = [called |-> FALSE, value |-> <<>>]
  /\ merged = [called |-> FALSE, value |-> <<>>]
  /\ ParserIdle
  /\ ImporterIdle
NextClusters == DetectDualTableClusters
SpecClusters == InitClusters /\ [][NextClusters]_vars

\* parse_header(lines), called once on the lines given
ParseHeader ==
  /\ ~header.called
  /\ header' = [called |-> TRUE, value |-> parse_header(lines)]
  /\ UNCHANGED <<pdf_pages, parsed_pages, page_log, clusters>>
  /\ UNCHANGED <<builderVars, normalizerVars, importerVars>>

\* first lines of a page: column names around a pipe, a single space and a
\* run of three spaces, the word | meaning header, prose, and three column
\* names around a tab and a pipe
HeaderLinePool ==
  { <<"E","n","g","l","i","s","h"," ","|"," ","A","n","c","i","e","n","t">>,
    <<"E","n","g","l","i","s","h"," ","A","n","c","i","e","n","t">>,
    <<"E","n","g","l","i","s","h"," "," "," ","M","o","d","e","r","n">>,
    <<"w","o","r","d"," ","|"," ","m","e","a","n","i","n","g">>,
    <<"s","o","m","e"," ","t","e","x","t">>,
    <<"E","n","g","l","i","s","h","\t","A","n","c","i","e","n","t"," ","|"," ","M","o","d","e","r","n">> }
InitHeader ==
  /\ InitBuilder({})
  /\ lines \in SeqsUpTo(HeaderLinePool, MaxLines)
  /\ result = [called |-> FALSE, value |-> <<>>]
  /\ merged = [called |-> FALSE, value |-> <<>>]
  /\ ParserIdle
  /\ ImporterIdle
NextHeader == ParseHeader
SpecHeader == InitHeader /\ [][NextHeader]_vars

\* merge_continuation_lines(lines), called once on the lines given
MergeContinuationLines ==
  /\ ~merged.called
  /\ merged' = [called |-> TRUE, value |-> merge_continuation_lines(lines)]
  /\ UNCHANGED <<lines, result>>
  /\ UNCHANGED <<builderVars, parserVars, importerVars>>

\* lines of a page: ten characters starting with a capital, a short line
\* ending in a full stop, a short line starting with a capital, a line
\* starting with a lowercase letter, a blank line, and an indented line of
\* ten characters starting with a digit
ContinuationLinePool ==
  { <<"A","b","c","d","e","f","g","h","i","j">>,
    <<"F","o","o",".">>,
    <<"B","a","r">>,
    <<"c","d"," ","e","f">>,
    <<>>,
    <<" ","1","2","3","4","5","6","7","8","9","0">> }
InitMerge ==
  /\ InitBuilder({})
  /\ lines \in SeqsUpTo(ContinuationLinePool, MaxLines)
  /\ result = [called |-> FALSE, value |-> <<>>]
  /\ merged = [called |-> FALSE, value |-> <<>>]
  /\ ParserIdle
  /\ ImporterIdle
NextMerge == MergeContinuationLines
SpecMerge == InitMerge /\ [][NextMerge]_vars

\* SpecFilter: entries for the keys "ab" and "cd": a confident and a less
\* confident ancient reading, a modern reading that is a placeholder, and a
\* less confident placeholder
FilterPool ==
  { Entry([english |-> <<"a","b">>, ancient |-> <<"x">>, confidence |-> 9]),
    Entry([english |-> <<"a","b">>, ancient |-> <<"y">>, confidence |-> 8]),
    Entry([english |-> <<"a","b">>, modern |-> <<"T","B","D">>, confidence |-> 9]),
    Entry([english |-> <<"c","d">>, ancient |-> <<"-">>, confidence |-> 8]) }
FilterPagePool ==
  { [page_number |-> 1, entries |-> es] :
      es \in SeqsUpTo({e \in FilterPool : e.confidence < 9}, MaxPageLen) }
ProcessFilterEntry == \E entry \in FilterPool : ProcessEntryOf(entry)
ProcessFilterPage == \E page \in FilterPagePool : ProcessPageOf(page)
\* the caller processes again an Entry that the builder holds in its
\* excluded entries
ProcessExcludedAgain ==
  \E i \in 1..Len(excluded_entries) : ProcessEntryOf(excluded_entries[i])
\* entries one by one, filter_low_confidence and one build
NextFilter == ProcessFilterEntry \/ FilterLowConfidence \/ BuildOnce
SpecFilter == Init /\ [][NextFilter]_vars
\* entries and pages, the three filters and one build
NextFilterAll ==
  \/ ProcessFilterEntry
  \/ ProcessFilterPage
  \/ ProcessExcludedAgain
  \/ FilterLowConfidence
  \/ FilterIncompleteEntries
  \/ FilterPlaceholderEntries
  \/ BuildOnce
SpecFilterAll == Init /\ [][NextFilterAll]_vars

\* entries one by one, resolve_conflicts and one build
NextResolveAll == ProcessEntry \/ ResolveConflicts \/ BuildOnce
SpecResolveAll == Init /\ [][NextResolveAll]_vars

\* SpecOrder: entries for the key "ab" with one translation, the other
\* being None or blank, a less confident modern reading under the headword
\* "Ab!", an entry with both translations, and an entry for the key "cd"
OrderPool ==
  { Entry([english |-> <<"a","b">>, ancient |-> <<"x">>]),
    Entry([english |-> <<"a","b">>, ancient |-> <<"x">>, modern |-> <<" ">>]),
    Entry([english |-> <<"a","b">>, modern |-> <<"m">>]),
    Entry([english |-> <<"a","b">>, ancient |-> <<" ">>, modern |-> <<"m">>]),
    Entry([english |-> <<"A","b","!">>, modern |-> <<"m">>, confidence |-> 8]),
    Entry([english |-> <<"a","b">>, ancient |-> <<"x">>, modern |-> <<"m">>]),
    Entry([english |-> <<"c","d">>, ancient |-> <<"x">>]) }
OrderPagePool ==
  { [page_number |-> 1, entries |-> es] :
      es \in SeqsUpTo(OrderPool, MaxPageLen) }
ProcessOrderPage == \E page \in OrderPagePool : ProcessPageOf(page)
\* one page of entries, then one build
NextOrder == ProcessOrderPage \/ BuildOnce
SpecOrder == Init /\ [][NextOrder]_vars

\* entries of the JSON: both translations; an empty headword; the
\* placeholder and a one-letter translation; a padded headword with a
\* prefixed translation and a translation that is only a parenthetical; no
\* modern translation and an ancient one that cleaning shortens to one
\* letter; no headword
JsonEntryPool ==
  { [english |-> <<"A","b">>, ancient |-> <<"x","y">>, modern |-> <<"z","w">>],
    [english |-> <<>>, ancient |-> <<"x","y">>],
    [english |-> <<"c","d">>, ancient |-> <<"U+2014">>, modern |-> <<"x">>],
    [english |-> <<" ","a","b"," ">>, ancient |-> <<"C","o","r","e","-","x","y">>, modern |-> <<"(","n",".",")">>],
    [english |-> <<"c","d">>, ancient |-> <<"x","!">>],
    [ancient |-> <<"x","y">>, modern |-> <<" ","z","w"," ">>] }
\* self._process_entry(entry, variant, cluster_name), as _process_clusters
\* calls it for the entries of the 'ancient' and 'modern' lists
ProcessJsonEntry ==
  \E entry \in JsonEntryPool, variant \in {"ancient", "modern"} :
    /\ Len(imported) < MaxImported
    /\ importer' = _process_entry(importer, entry, variant)
    /\ imported' = Append(imported, [entry |-> entry, variant |-> variant])
    /\ UNCHANGED <<builderVars, normalizerVars, parserVars>>

InitImport == InitBuilder({}) /\ NonBuilderIdle
NextImport == ProcessJsonEntry
SpecImport == InitImport /\ [][NextImport]_vars

\* entries one by one and any number of builds
NextBuild == ProcessEntry \/ BuildDictionaries
SpecBuild == Init /\ [][NextBuild]_vars

\* a builder created with an exclude list that names the key "ab"
InitExcludeKey == InitBuilder({ <<"a","b">> }) /\ NonBuilderIdle
SpecExcludeKey == InitExcludeKey /\ [][NextBuild]_vars

\* ------------------------------------------------------------------ claims
\* vocabulary of the claims, stated on entries and groups
KeyOf(e) == Lower(clean_headword(e.english))
Keys == {conflicts[i].key : i \in 1..Len(conflicts)}
Group(k) == GroupOf(conflicts, k)
AncientOnly(e) == has_ancient(e) /\ ~has_modern(e)
ModernOnly(e) == has_modern(e) /\ ~has_ancient(e)
OtherSide(e1, e2) ==
  (AncientOnly(e1) /\ ModernOnly(e2)) \/ (ModernOnly(e1) /\ AncientOnly(e2))
Excluded(e) == should_exclude(exclude_terms, e).exclude
BuildReturned == last_call.op = "build_dictionaries" /\ last_call.exc = "none"

\* C1: process_entry(e) called a second time right after process_entry(e),
\* e not excluded, leaves the conflict groups, both in-progress mappings and
\* the conflicts counter as they were.
C1_SecondCallChangesNothing ==
  [][ ( /\ last_call.op = "process_entry"
        /\ last_call'.op = "process_entry"
        /\ stats'.total_entries = stats.total_entries + 1
        /\ last_call'.entry = last_call.entry
        /\ ~Excluded(last_call.entry) )
      => ( /\ conflicts' = conflicts
           /\ ancient_entries' = ancient_entries
           /\ modern_entries' = modern_entries
           /\ stats'.conflicts = stats.conflicts ) ]_vars

\* C2: a one-sided entry processed for a key whose group holds, at any
\* position, an entry with only the other translation is merged with it: the
\* group then holds an entry with both translations and the conflicts counter
\* is unchanged.
C2_ComplementaryAlwaysMerged ==
  [][ ( /\ last_call'.op = "process_entry"
        /\ stats'.total_entries = stats.total_entries + 1
        /\ ~Excluded(last_call'.entry)
        /\ KeyOf(last_call'.entry) \in Keys )
      => LET e == last_call'.entry
             k == KeyOf(e)
             g == Group(k)
             g2 == GroupOf(conflicts', k)
         IN \A i \in 1..Len(g) :
              OtherSide(g[i], e) =>
                /\ stats'.conflicts = stats.conflicts
                /\ \E j \in 1..Len(g2) :
                     /\ g2[j].ancient = OrStr(g[i].ancient, e.ancient)
                     /\ g2[j].modern = OrStr(g[i].modern, e.modern) ]_vars

\* C3: once build_dictionaries has returned, every entry that was accepted
\* into a group and was neither dropped as a duplicate nor absorbed by a
\* complementary merge is the winner of its key or is in variant_entries.
IsWinner(e) ==
  /\ KeyOf(e) \in Keys
  /\ resolve_conflict(KeyOf(e), Group(KeyOf(e))) = Return(e)
C3_NoCandidateDisappears ==
  BuildReturned =>
    \A e \in live : IsWinner(e) \/ e \in Range(variant_entries)

\* C4: build_dictionaries called right after build_dictionaries returns the
\* same mappings, the same variant_entries and the same statistics.
C4_SecondBuildSameOutput ==
  \A n \in 2..Len(returned) :
    (returned[n].after.op = "build_dictionaries" /\
     returned[n].after.exc = "none")
    => /\ returned[n].ancient_entries = returned[n - 1].ancient_entries
       /\ returned[n].modern_entries = returned[n - 1].modern_entries
       /\ returned[n].variant_entries = returned[n - 1].variant_entries
       /\ returned[n].build_stats = returned[n - 1].build_stats

\* vocabulary of the resolution claims
NotesMarked(e) ==
  e.notes # None /\
  (Contains(Str_primary, Lower(e.notes)) \/ Contains(Str_standard, Lower(e.notes)))
NoMarkers(g) == \A i \in 1..Len(g) : ~NotesMarked(g[i])
PageRank(e) == IF e.source_page = NoneInt THEN 0 ELSE e.source_page
TableRank(e) == IF "table_order" \in DOMAIN e THEN e.table_order ELSE 0
TopConfidence(g) ==
  {i \in 1..Len(g) : \A j \in 1..Len(g) : g[j].confidence <= g[i].confidence}
TopPage(g) ==
  {i \in TopConfidence(g) :
     \A j \in TopConfidence(g) : PageRank(g[j]) <= PageRank(g[i])}
\* the final mappings hold exactly the translations of e under key k
MappingsCarry(k, e) ==
  /\ (k \in DOMAIN ancient_entries) = has_ancient(e)
  /\ has_ancient(e) => ancient_entries[k] = e.ancient
  /\ (k \in DOMAIN modern_entries) = has_modern(e)
  /\ has_modern(e) => modern_entries[k] = e.modern

\* C5: in a group without primary/standard marker the winner has a confidence
\* that is maximal in the group, and an entry whose confidence is strictly
\* above all others wins, wherever it stands and whatever its page; the
\* mappings build_dictionaries returns carry that winner.
C5_ConfidenceDecides ==
  \A k \in Keys :
    LET g == Group(k)
        r == resolve_conflict(k, g)
    IN NoMarkers(g) =>
         /\ r.exc = "none" => r.ret.confidence = g[CHOOSE i \in TopConfidence(g) : TRUE].confidence
         /\ \A i \in 1..Len(g) :
              TopConfidence(g) = {i} =>
                /\ r = Return(g[i])
                /\ BuildReturned => MappingsCarry(k, g[i])
         /\ BuildReturned =>
              \E i \in TopConfidence(g) : MappingsCarry(k, g[i])

C5_Witness ==
  /\ BuildReturned
  /\ \E k \in Keys :
       LET g == Group(k) IN
       /\ Len(g) = 3 /\ NoMarkers(g)
       /\ TopConfidence(g) = {2}
       /\ PageRank(g[1]) > PageRank(g[2])
       /\ MappingsCarry(k, g[2])

\* C6: in a group without marker where two or more entries share the top
\* confidence, the one of them with the highest source_page wins, also when
\* the group holds entries of lower confidence.
C6_PageBreaksConfidenceTie ==
  \A k \in Keys :
    LET g == Group(k) IN
    (NoMarkers(g) /\ Cardinality(TopConfidence(g)) >= 2) =>
      \A i \in TopConfidence(g) :
        TopPage(g) = {i} => resolve_conflict(k, g) = Return(g[i])

\* C7: in a group without marker where the entries tied on top confidence are
\* also tied on the highest source_page, resolve_conflict returns the one of
\* them with the highest table_order.
C7_TableOrderBreaksPageTie ==
  \A k \in Keys :
    LET g == Group(k)
        r == resolve_conflict(k, g)
    IN (NoMarkers(g) /\ Cardinality(TopPage(g)) >= 2) =>
         /\ r.exc = "none"
         /\ \E i \in TopPage(g) :
              /\ r.ret = g[i]
              /\ \A j \in TopPage(g) : TableRank(g[j]) <= TableRank(g[i])

\* C8: in a conflict group whose entries all have the same confidence, the
\* same source_page and no table_order, and no marker, resolve_conflict
\* returns the entry added first.
C8_AllTiedFirstWins ==
  \A k \in Keys :
    LET g == Group(k) IN
    ( /\ Len(g) >= 2 /\ NoMarkers(g)
      /\ \A i \in 1..Len(g) :
           /\ g[i].confidence = g[1].confidence
           /\ g[i].source_page = g[1].source_page
           /\ "table_order" \notin DOMAIN g[i] )
    => resolve_conflict(k, g) = Return(g[1])

\* C9: in a group where some entry's notes contain "primary" or "standard"
\* in any letter case, resolve_conflict returns the first such entry in
\* arrival order, whatever the confidences and pages, and the mappings
\* build_dictionaries returns carry it.
FirstMarkedIndex(g) ==
  CHOOSE i \in 1..Len(g) :
    NotesMarked(g[i]) /\ \A j \in 1..(i - 1) : ~NotesMarked(g[j])
C9_MarkerWinsOutright ==
  \A k \in Keys :
    LET g == Group(k) IN
    ~NoMarkers(g) =>
      /\ resolve_conflict(k, g) = Return(g[FirstMarkedIndex(g)])
      /\ BuildReturned => MappingsCarry(k, g[FirstMarkedIndex(g)])

C9_Witness ==
  /\ BuildReturned
  /\ \E k \in Keys :
       LET g == Group(k) IN
       /\ Len(g) = 3 /\ ~NoMarkers(g) /\ FirstMarkedIndex(g) = 2
       /\ ~Contains(Str_primary, Lower(g[2].notes))
       /\ g[1].confidence > g[2].confidence
       /\ PageRank(g[3]) > PageRank(g[2])
       /\ MappingsCarry(k, g[2])

\* C10: an entry that meets an exclusion rule is excluded with the reason of
\* the earliest rule it meets, in the order exclude list, blocked term,
\* empty/blank headword, headword shorter than 2, no translation: it is
\* appended to excluded_entries with that reason in its notes, the excluded
\* counter goes up by one, and groups, ledger and mappings stay as they were.
RuleReason(terms, e) ==
  IF Lower(e.english) \in terms THEN Str_In_exclude_list
  ELSE IF \E t \in divine_terms : Contains(t, Lower(e.english))
  THEN Str_Divine_religious_term
  ELSE IF \E t \in comoara_terms : Contains(t, Lower(e.english))
  THEN Str_Comoara_term
  ELSE IF Strip(e.english) = <<>> THEN Str_empty
  ELSE IF Len(e.english) < 2 THEN Str_Too_short
  ELSE IF ~(has_ancient(e) \/ has_modern(e)) THEN Str_No_translations
  ELSE <<>>
RulesMet(terms, e) ==
  { n \in 1..5 :
      \/ n = 1 /\ Lower(e.english) \in terms
      \/ n = 2 /\ \E t \in divine_terms \cup comoara_terms :
                    Contains(t, Lower(e.english))
      \/ n = 3 /\ Strip(e.english) = <<>>
      \/ n = 4 /\ Len(e.english) < 2
      \/ n = 5 /\ ~(has_ancient(e) \/ has_modern(e)) }
C10_ExcludedWithEarliestReason ==
  [][ ( /\ last_call'.op = "process_entry"
        /\ stats'.total_entries = stats.total_entries + 1
        /\ RulesMet(exclude_terms, last_call'.entry) # {} )
      => LET e == last_call'.entry IN
         /\ excluded_entries' =
              Append(excluded_entries,
                     [e EXCEPT !.notes =
                        Str_EXCLUDED \o RuleReason(exclude_terms, e)])
         /\ stats'.excluded_entries = stats.excluded_entries + 1
         /\ conflicts' = conflicts
         /\ variants' = variants
         /\ ancient_entries' = ancient_entries
         /\ modern_entries' = modern_entries ]_vars

C10_Witness ==
  /\ last_call.op = "process_entry"
  /\ RulesMet(exclude_terms, last_call.entry) = {3, 4, 5}
  /\ excluded_entries # <<>>
  /\ excluded_entries[Len(excluded_entries)] =
       [last_call.entry EXCEPT !.notes = Str_EXCLUDED \o Str_empty]
  /\ conflicts # <<>>

\* C11: for a builder created with an exclude list, no key of the ancient or
\* of the modern mapping is a member of the exclude list, at any moment and
\* in particular after build_dictionaries.
C11_NoExcludedKey ==
  \A k \in (DOMAIN ancient_entries) \cup (DOMAIN modern_entries) :
    k \notin exclude_terms

\* C12: after build_dictionaries returned, the counter ancient_entries is the
\* number of keys of the ancient mapping and the counter modern_entries the
\* number of keys of the modern mapping, in the builder's statistics and in
\* the statistics of the returned build.
C12_CountersCountKeys ==
  BuildReturned =>
    /\ stats.ancient_entries = Cardinality(DOMAIN ancient_entries)
    /\ stats.modern_entries = Cardinality(DOMAIN modern_entries)
    /\ Build.build_stats.ancient_entries =
         Cardinality(DOMAIN Build.ancient_entries)
    /\ Build.build_stats.modern_entries =
         Cardinality(DOMAIN Build.modern_entries)
    /\ Build.build_stats.total_ancient =
         Cardinality(DOMAIN Build.ancient_entries)
    /\ Build.build_stats.total_modern =
         Cardinality(DOMAIN Build.modern_entries)

\* a second build of a group that went through a merge and a conflict
C12_Witness ==
  /\ BuildReturned
  /\ Len(returned) = 2
  /\ stats.conflicts >= 1
  /\ \E k \in Keys : Len(Group(k)) = 2 /\ k \in DOMAIN modern_entries
  /\ stats.modern_entries = 1

\* C13: after build_dictionaries returned, the keys of the two mappings are
\* keys of groups, each key with a group is in at least one mapping, and for
\* each such key the ancient (modern) mapping holds the key iff the resolved
\* winner of its group has a non-blank ancient (modern) translation, which
\* is then the value.
C13_MappingsAreTheWinners ==
  BuildReturned =>
    /\ (DOMAIN ancient_entries) \cup (DOMAIN modern_entries) = Keys
    /\ \A k \in Keys :
         LET r == resolve_conflict(k, Group(k)) IN
         /\ r.exc = "none"
         /\ MappingsCarry(k, r.ret)

\* two keys, one of them with a conflict group won by its second entry
C13_Witness ==
  /\ BuildReturned
  /\ Cardinality(Keys) = 2
  /\ \E k \in Keys :
       /\ Len(Group(k)) = 2
       /\ resolve_conflict(k, Group(k)) = Return(Group(k)[2])
       /\ Group(k)[1].ancient # Group(k)[2].ancient
       /\ ancient_entries[k] = Group(k)[2].ancient

\* C14: no call of process_entry, process_page or build_dictionaries ends
\* with an exception, whatever the entries and the calls before it.
C14_NeverRaises == last_call.exc = "none"

\* C19: a non-excluded entry that arrives for a key with a group, is no
\* duplicate of an entry of the group and is complementary to none, is
\* appended to the group (the earlier entries stay), the conflicts counter
\* goes up by one, the key leaves both in-progress mappings and the variants
\* ledger of the key holds the group's first entry; groups, mappings and
\* ledgers of the other keys stay as they were.
SameTranslations(e1, e2) ==
  e1.ancient = e2.ancient /\ e1.modern = e2.modern /\ e1.pos = e2.pos
Without(d, k) == [x \in (DOMAIN d) \ {k} |-> d[x]]
C19_ConflictKeepsAllEntries ==
  [][ ( /\ last_call'.op = "process_entry"
        /\ stats'.total_entries = stats.total_entries + 1
        /\ ~Excluded(last_call'.entry)
        /\ KeyOf(last_call'.entry) \in Keys
        /\ \A i \in 1..Len(Group(KeyOf(last_call'.entry))) :
             /\ ~SameTranslations(Group(KeyOf(last_call'.entry))[i],
                                  last_call'.entry)
             /\ ~OtherSide(Group(KeyOf(last_call'.entry))[i],
                           last_call'.entry) )
      => LET e == last_call'.entry
             k == KeyOf(e)
             g == Group(k)
         IN /\ Len(conflicts') = Len(conflicts)
            /\ \A i \in 1..Len(conflicts) :
                 /\ conflicts'[i].key = conflicts[i].key
                 /\ conflicts'[i].entries =
                      IF conflicts[i].key = k THEN Append(g, e)
                      ELSE conflicts[i].entries
            /\ stats'.conflicts = stats.conflicts + 1
            /\ k \notin DOMAIN ancient_entries'
            /\ k \notin DOMAIN modern_entries'
            /\ ancient_entries' = Without(ancient_entries, k)
            /\ modern_entries' = Without(modern_entries, k)
            /\ k \in DOMAIN variants'
            /\ g[1] \in Range(variants'[k])
            /\ Without(variants', k) = Without(variants, k) ]_vars

\* the second entry of a group arrived as a conflict while another key keeps
\* its mapping
C19_Witness ==
  /\ last_call.op = "process_entry"
  /\ ~Excluded(last_call.entry)
  /\ stats.conflicts = 1
  /\ LET k == KeyOf(last_call.entry) IN
     /\ k \in Keys
     /\ Len(Group(k)) = 2
     /\ Group(k)[2] = last_call.entry
     /\ k \notin (DOMAIN ancient_entries) \cup (DOMAIN modern_entries)
     /\ Group(k)[1] \in Range(variants[k])
  /\ DOMAIN ancient_entries # {}

\* C17: restore_hyphenated_words drops the blank lines and, for each adjacent
\* pair of non-blank lines whose first ends in '-' and whose second begins
\* with a lowercase letter, keeps both lines when the candidate (first line,
\* hyphen, first word of the second line) starts with a known prefix or is a
\* capitalized Word-Word compound, and otherwise replaces the pair by one
\* line without the hyphen; every other line is output as it is, in order.
\* (Lines are compared without their surrounding whitespace.)
KnownPrefix(w) == \E p \in KNOWN_HYPHENATED : StartsWith(Lower(w), p)
WordWord(w) ==
  LET parts == SplitOn(w, "-") IN
  /\ Len(parts) = 2
  /\ Len(parts[1]) > 1 /\ IsUpperChar(parts[1][1])
  /\ Len(parts[2]) > 1 /\ IsUpperChar(parts[2][1])
BeforeHyphen(l) == Strip(SubSeq(l, 1, Len(l) - 1))
Candidate(first, second) ==
  BeforeHyphen(first) \o <<"-">> \o SplitWords(second)[1]
SoftPair(first, second) ==
  /\ first[Len(first)] = "-"
  /\ IsLowerChar(second[1])
  /\ ~KnownPrefix(Candidate(first, second))
  /\ ~WordWord(Candidate(first, second))
\* ls: the non-blank lines; open: the output line that ends with ls[i]
RECURSIVE JoinSoftPairs(_, _, _)
JoinSoftPairs(ls, i, open) ==
  IF i >= Len(ls) THEN <<open>>
  ELSE IF SoftPair(ls[i], ls[i + 1])
  THEN JoinSoftPairs(ls, i + 1, BeforeHyphen(open) \o ls[i + 1])
  ELSE <<open>> \o JoinSoftPairs(ls, i + 1, ls[i + 1])
HyphensRestored(ls) ==
  IF ls = <<>> THEN <<>> ELSE JoinSoftPairs(ls, 1, ls[1])
C17_EachSoftPairJoined ==
  result.called => result.value = HyphensRestored(StripNonEmpty(lines))

\* a page of the log that parse_page returned with at least one entry
Kept(r) == r.exc = "none" /\ r.ret.entries # <<>>

\* C15 (parse_pdf_pages isolates the failure of a page): once
\* parse_pdf_pages was called it returned, parse_page was called for every
\* page of the PDF in input order, whether or not an earlier page raised,
\* and the list returned holds, in input order, exactly the ParsedPage of
\* each page whose parse_page returned with at least one entry; a page whose
\* parse_page raised contributes nothing.
C15_PageFailuresIsolated ==
  parsed_pages.called =>
    /\ parsed_pages.exc = "none"
    /\ Len(page_log) = Len(pdf_pages)
    /\ \A k \in 1..Len(pdf_pages) :
         /\ page_log[k].page_num = pdf_pages[k].page_num
         /\ [exc |-> page_log[k].exc, ret |-> page_log[k].ret] =
              parse_page(pdf_pages[k].page_text, pdf_pages[k].page_num)
    /\ LET kept == SelectSeq(page_log, Kept) IN
       parsed_pages.value = [k \in 1..Len(kept) |-> kept[k].ret]

\* the first page raised inside parse_page and the second page, parsed
\* after it, is the only page of the result
C15_Witness ==
  /\ parsed_pages.called
  /\ Len(page_log) = 2
  /\ page_log[1].exc = "ValueError"
  /\ Len(parsed_pages.value) = 1
  /\ parsed_pages.value[1].page_number = 2
  /\ parsed_pages.value[1].entries # <<>>

\* C16 (what parse_page emits): every Entry of a ParsedPage that parse_page
\* returned has a non-empty English field, at least one non-empty
\* translation, ancient or modern, and the page number given to parse_page
\* as its source_page.
C16_EntriesAreComplete ==
  \A k \in 1..Len(page_log) :
    page_log[k].exc = "none" =>
      \A j \in 1..Len(page_log[k].ret.entries) :
        LET e == page_log[k].ret.entries[j] IN
        /\ Truthy(e.english)
        /\ Truthy(e.ancient) \/ Truthy(e.modern)
        /\ e.source_page = page_log[k].page_num

\* C20 (each cluster once, in page order): the clusters that
\* detect_dual_table_clusters returns start at header lines further and
\* further down the page, so no cluster is returned twice, each ends before
\* the next one starts, and each holds at most one Entry per line between
\* its header and its end.
C20_EachClusterOnce ==
  clusters.called =>
    /\ \A k \in 1..Len(clusters.value) :
         LET c == clusters.value[k] IN
         /\ c.start_line \in 0..(Len(lines) - 1)
         /\ is_table_header(Strip(lines[c.start_line + 1]))
         /\ c.start_line <= c.end_line
         /\ Len(c.entries) <= c.end_line - c.start_line
    /\ \A k \in 1..(Len(clusters.value) - 1) :
         clusters.value[k].end_line < clusters.value[k + 1].start_line
\* the mapping _process_entry writes for a variant
MappingOf(imp, variant) ==
  IF variant = "ancient" THEN imp.ancient_entries ELSE imp.modern_entries

\* C18 (JSON import: written or excluded): a _process_entry call writes the
\* entry to the mapping of its variant, under the lower-cased headword and
\* with the cleaned translation, exactly when the stripped headword is not
\* empty, the stripped translation is neither empty nor the placeholder
\* dash, and cleaning leaves at least 2 characters; otherwise it leaves both
\* mappings alone, appends one entry with an EXCLUDED note to
\* excluded_entries and raises the excluded counter by one.  After every
\* call total_ancient + total_modern + excluded is the number of calls and
\* excluded is the length of excluded_entries.
C18_WrittenOrExcluded ==
  [][Len(imported') = Len(imported) + 1 =>
      LET call == imported'[Len(imported')]
          variant == call.variant
          other == IF variant = "ancient" THEN "modern" ELSE "ancient"
          english == Strip(Get(call.entry, "english"))
          libran == Strip(Get(call.entry, variant))
          cleaned == _clean_libran_word(libran)
          written == /\ english # <<>>
                     /\ libran # <<>> /\ libran # <<"U+2014">>
                     /\ Len(cleaned) >= 2
          old == importer.excluded_entries
          new == importer'.excluded_entries
      IN
      /\ MappingOf(importer', other) = MappingOf(importer, other)
      /\ written =>
           /\ MappingOf(importer', variant) =
                DictSet(MappingOf(importer, variant), Lower(english), cleaned)
           /\ new = old
           /\ importer'.stats.excluded = importer.stats.excluded
      /\ ~written =>
           /\ MappingOf(importer', variant) = MappingOf(importer, variant)
           /\ Len(new) = Len(old) + 1
           /\ SubSeq(new, 1, Len(old)) = old
           /\ StartsWith(new[Len(new)].notes, Str_EXCLUDED)
           /\ importer'.stats.excluded = importer.stats.excluded + 1
      /\ importer'.stats.total_ancient + importer'.stats.total_modern
           + importer'.stats.excluded = Len(imported')
      /\ importer'.stats.excluded = Len(new)
    ]_vars

\* two calls: one wrote the key "ab", the other was excluded because
\* cleaning left fewer than 2 characters
C18_Witness ==
  /\ Len(imported) = 2
  /\ <<"a","b">> \in DOMAIN importer.ancient_entries
  /\ Len(importer.excluded_entries) = 1
  /\ importer.excluded_entries[1].notes = Str_EXCLUDED_Invalid
  /\ importer.stats.excluded = 1

\* the clusters of a page hold at least one entry
HasClusterEntries(cl) == \E c \in 1..Len(cl) : cl[c].entries # <<>>

\* the 0-based index of the table that the j-th entry of the clusters
\* belongs to, the tables counted top to bottom
RECURSIVE TableIndexOf(_, _, _)
TableIndexOf(cl, c, j) ==
  IF c >= Len(cl) \/ j <= Len(cl[c].entries) THEN c - 1
  ELSE TableIndexOf(cl, c + 1, j - Len(cl[c].entries))

\* what parse_page did (r) for a page whose clusters are cl: the entries of
\* the clusters came out, each with the index of its table as table_order
TaggedByTable(r, cl) ==
  HasClusterEntries(cl) =>
    /\ r.exc = "none"
    /\ r.ret.entries # <<>>
    /\ \A j \in 1..Len(r.ret.entries) :
         /\ "table_order" \in DOMAIN r.ret.entries[j]
         /\ r.ret.entries[j].table_order = TableIndexOf(cl, 1, j)

\* C21 (table_order of the cluster path): on a page whose table clusters
\* hold entries, parse_page emits those entries, each carrying as
\* table_order the 0-based index, counted top to bottom, of the table whose
\* header most recently preceded its line; entries of the first table carry
\* table_order 0.
C21_ClusterEntriesCarryTableOrder ==
  \A k \in 1..Len(page_log) :
    TaggedByTable(page_log[k],
      detect_dual_table_clusters(normalize_table_text(pdf_pages[k].page_text)))

\* the line holds a column separator: a pipe, a run of at least three
\* whitespace characters, or a tab
HasSeparator(line) ==
  \/ "|" \in Range(line)
  \/ "\t" \in Range(line)
  \/ RunStarts(line, Whitespace, 3, 1) # <<>>

\* C22 (what parse_header accepts): the line that parse_header returns as
\* the header holds a column separator (a pipe, a run of at least 3 spaces,
\* or a tab) and at least two distinct known columns were identified in it;
\* so a line of two column names separated by a single space is never
\* accepted.
C22_HeaderHasSeparator ==
  (header.called /\ header.value.found) =>
    /\ HasSeparator(lines[header.value.header_line + 1])
    /\ Cardinality(DOMAIN header.value.columns) >= 2

\* the entries of all clusters of a page, top to bottom
RECURSIVE AllClusterEntries(_)
AllClusterEntries(cl) ==
  IF cl = <<>> THEN <<>> ELSE Head(cl).entries \o AllClusterEntries(Tail(cl))

\* what the stage of the single recognized table (dual or single layout)
\* or, for a header of unknown type, the generic structured scan yields
TableStageEntries(normalized_lines, column_info) ==
  IF ~column_info.found THEN <<>>
  ELSE IF column_info.table_type = "dual"
  THEN parse_dual_table_layout(normalized_lines)
  ELSE IF column_info.table_type = "single"
  THEN parse_single_table_layout(normalized_lines)
  ELSE StructuredEntries(normalized_lines, column_info.header_line + 1,
                         column_info)

\* parse_page returned (r) the entries of the first stage that yields any:
\* ce from the clusters, te from the table stages, ue from the unstructured
\* stage
StagedFrom(r, ce, te, ue, page_number) ==
  /\ r.exc = "none"
  /\ r.ret.entries =
       IF ce # <<>> THEN WithSourcePage(ce, page_number)
       ELSE IF te # <<>> THEN WithSourcePage(te, page_number)
       ELSE ue

StagedAs(r, normalized_lines, page_number, page_text) ==
  StagedFrom(r,
    AllClusterEntries(detect_dual_table_clusters(normalized_lines)),
    TableStageEntries(normalized_lines, parse_header(normalized_lines)),
    parse_unstructured_text(normalized_lines,
                            ParsedPage(page_number, page_text)).entries,
    page_number)

\* C23 (the fallback chain of parse_page): parse_page returns, without
\* raising, a ParsedPage whose entries are those of the first stage that
\* yields any, the stages taken in the order multi-cluster, single
\* recognized table (dual or single), generic structured scan, unstructured
\* pattern matching; so the entries of a page all come from one stage, and
\* a page on which every stage fails has zero entries.
C23_FirstYieldingStage ==
  \A k \in 1..Len(page_log) :
    StagedAs(page_log[k], normalize_table_text(pdf_pages[k].page_text),
             pdf_pages[k].page_num, pdf_pages[k].page_text)

\* the line is joined onto the logical line before it: it starts with a
\* lowercase letter, or it is shorter than 10 characters and the line
\* immediately preceding it does not end in '.', '!', '?' or ':' (blank
\* lines neither join nor are joined onto)
JoinsPrevious(line, preceding) ==
  /\ line # <<>> /\ preceding # <<>>
  /\ \/ IsLowerChar(line[1])
     \/ Len(line) < 10 /\ ~EndsSentence(preceding)

\* the index of the first line from j on that is not joined
RECURSIVE JoinStop(_, _)
JoinStop(ls, j) ==
  IF j <= Len(ls) /\ JoinsPrevious(Strip(ls[j]), Strip(ls[j - 1]))
  THEN JoinStop(ls, j + 1)
  ELSE j

\* the logical lines from line i on
RECURSIVE LogicalLines(_, _)
LogicalLines(ls, i) ==
  IF i > Len(ls) THEN <<>>
  ELSE <<JoinedGroup(ls, i, JoinStop(ls, i + 1))>> \o
       LogicalLines(ls, JoinStop(ls, i + 1))

\* C24 (which lines merge_continuation_lines joins): a line is joined onto
\* the logical line before it exactly when it starts with a lowercase
\* letter, or it is shorter than 10 characters and the line immediately
\* preceding it does not end in '.', '!', '?' or ':'; the joined lines are
\* concatenated with a single space, in order, and every input line is part
\* of exactly one output line.
C24_JoinedExactlyWhenContinuation ==
  merged.called => merged.value = LogicalLines(lines, 1)

\* the entries with confidence below t of the groups from item i on, in the
\* order of the groups
RECURSIVE LowEntries(_, _, _)
LowEntries(groups, i, t) ==
  IF i > Len(groups) THEN <<>>
  ELSE LET Low(e) == e.confidence < t IN
       SelectSeq(groups[i].entries, Low) \o LowEntries(groups, i + 1, t)

\* build_dictionaries returned and the call before it was op
BuiltRightAfter(op) ==
  /\ BuildReturned
  /\ returned[Len(returned)].after.op = op
  /\ returned[Len(returned)].after.exc = "none"

\* the last Len(low) excluded entries are the entries low, each with a
\* reason as its notes
ExcludedLast(low) ==
  \A j \in 1..Len(low) :
    LET x == excluded_entries[Len(excluded_entries) - Len(low) + j] IN
    /\ x = [low[j] EXCEPT !.notes = x.notes]
    /\ StartsWith(x.notes, Str_EXCLUDED)
    /\ Len(x.notes) > Len(Str_EXCLUDED)

\* C25 (filter_low_confidence, then build_dictionaries): once
\* build_dictionaries has returned right after filter_low_confidence(t),
\* every entry that was in a group with confidence below t is in the
\* excluded list with a reason and was counted once in the excluded
\* counter, no entry left in a group has confidence below t, every key of
\* the two mappings has a group and its value is a translation of an entry
\* left in that group, and a key all of whose entries were filtered is in
\* neither mapping.
C25_LowConfidenceExcluded ==
  BuiltRightAfter("filter_low_confidence") =>
    LET low == LowEntries(prior.self.conflicts, 1, prior.threshold) IN
    /\ Len(excluded_entries) = Len(prior.self.excluded_entries) + Len(low)
    /\ ExcludedLast(low)
    /\ stats.excluded_entries = prior.self.stats.excluded_entries + Len(low)
    /\ \A k \in Keys : \A i \in 1..Len(Group(k)) :
         Group(k)[i].confidence >= prior.threshold
    /\ \A k \in DOMAIN ancient_entries :
         k \in Keys /\ \E i \in 1..Len(Group(k)) :
                         Group(k)[i].ancient = ancient_entries[k]
    /\ \A k \in DOMAIN modern_entries :
         k \in Keys /\ \E i \in 1..Len(Group(k)) :
                         Group(k)[i].modern = modern_entries[k]
    /\ \A i \in 1..Len(prior.self.conflicts) :
         (\A j \in 1..Len(prior.self.conflicts[i].entries) :
            prior.self.conflicts[i].entries[j].confidence < prior.threshold)
         => /\ prior.self.conflicts[i].key \notin DOMAIN ancient_entries
            /\ prior.self.conflicts[i].key \notin DOMAIN modern_entries

\* the key "ab" held a confident and a less confident reading and the key
\* "cd" only a less confident one: after filter_low_confidence(0.9) and
\* build_dictionaries two entries are excluded, "ab" is mapped to the
\* confident reading and "cd" is in neither mapping
C25_Witness ==
  /\ BuiltRightAfter("filter_low_confidence")
  /\ prior.threshold = 9
  /\ Len(LowEntries(prior.self.conflicts, 1, 9)) = 2
  /\ Len(excluded_entries) = 2
  /\ Keys = { <<"a","b">> }
  /\ ancient_entries = DictSet(EmptyDict, <<"a","b">>, <<"x">>)
  /\ modern_entries = EmptyDict

\* C26 (the returned build is written once): a process_entry or
\* process_page call on a builder whose build_dictionaries has returned
\* leaves the ancient and modern mappings, the excluded list and the variant
\* list of the DictionaryBuild that was returned as they were.
C26_ReturnedBuildUntouched ==
  [][ ( /\ build_linked
        /\ last_call'.op \in {"process_entry", "process_page"} )
      => /\ Build'.ancient_entries = Build.ancient_entries
         /\ Build'.modern_entries = Build.modern_entries
         /\ Build'.excluded_entries = Build.excluded_entries
         /\ Build'.variant_entries = Build.variant_entries ]_vars

\* the builder's mappings and variant list are those of the build r
SameOutputAs(r) ==
  r.exc = "none" =>
    /\ ancient_entries = r.state.ancient_entries
    /\ modern_entries = r.state.modern_entries
    /\ variant_entries = r.state.variant_entries

\* C27 (resolve_conflicts before build_dictionaries): once
\* build_dictionaries has returned right after resolve_conflicts(), the
\* ancient and modern mappings and the list of variant entries are those
\* that build_dictionaries gives when called directly on the groups as
\* resolve_conflicts found them.
C27_ResolveConflictsKeepsOutput ==
  BuiltRightAfter("resolve_conflicts") =>
    SameOutputAs(build_dictionaries(prior.self))

\* C28 (what the groups hold): in every state of the builder, every entry
\* of a conflict group is complete (it has a non-blank ancient or modern
\* translation), has a headword of at least 2 characters, is not in the
\* excluded list, and differs from every other entry of its group on
\* (ancient, modern, pos).
C28_GroupEntriesWellFormed ==
  \A k \in Keys : \A i \in 1..Len(Group(k)) :
    /\ is_complete(Group(k)[i])
    /\ Len(Group(k)[i].english) >= 2
    /\ Group(k)[i] \notin Range(excluded_entries)
    /\ \A j \in 1..Len(Group(k)) :
         j # i => ~is_duplicate(<<Group(k)[j]>>, Group(k)[i])

\* the value a mapping holds for a key, None when it holds none
ValueAt(d, k) == IF k \in DOMAIN d THEN d[k] ELSE None

\* the builder's mappings hold for key k what the build r holds
SameValuesAs(k, r) ==
  /\ r.exc = "none"
  /\ ValueAt(ancient_entries, k) = ValueAt(r.state.ancient_entries, k)
  /\ ValueAt(modern_entries, k) = ValueAt(r.state.modern_entries, k)

\* a new builder was given the two entries of pg, one with only an ancient
\* and one with only a modern translation for the same key, and
\* build_dictionaries returned
BuiltFromPair(pg) ==
  /\ BuiltRightAfter("process_page")
  /\ stats.pages_processed = 1
  /\ Len(pg) = 2
  /\ OtherSide(pg[1], pg[2])
  /\ KeyOf(pg[1]) = KeyOf(pg[2])

\* C29 (arrival order of a complementary pair): the values the two mappings
\* hold for a key after an ancient-only and a modern-only entry for the key
\* were processed and build_dictionaries returned are the values they hold
\* when the two entries are processed in the other order.
C29_ArrivalOrderIrrelevant ==
  BuiltFromPair(returned[Len(returned)].after.page) =>
    SameValuesAs(KeyOf(returned[Len(returned)].after.page[1]),
      build_dictionaries(process_page(FreshBuilder(exclude_terms),
        [page_number |-> 1,
         entries |-> <<returned[Len(returned)].after.page[2],
                       returned[Len(returned)].after.page[1]>>])))

\* C30 (re-processing an accepted entry): when a new builder has processed
\* the entries of a page and is then given one of them again, none of them
\* excluded, the call creates no conflict: the groups, the two mappings and
\* the conflicts counter stay as they were; in particular after the page's
\* ancient-only and modern-only entry for a key were merged.
C30_ReprocessingCreatesNoConflict ==
  [][ ( /\ last_call.op = "process_page"
        /\ stats.total_entries = Len(last_call.page)
        /\ last_call'.op = "process_entry"
        /\ last_call'.entry \in Range(last_call.page)
        /\ ~Excluded(last_call'.entry) )
      => /\ conflicts' = conflicts
         /\ ancient_entries' = ancient_entries
         /\ modern_entries' = modern_entries
         /\ stats'.conflicts = stats.conflicts ]_vars
====
